---- MODULE Spec2Model ----
(***************************************************************************)
(* QueryPilot-AI: the SQL synthesizer (agents/sql_planner_agent.py), the   *)
(* safety validator (core/sql_safety.py) and the request pipeline          *)
(* (core/orchestrator.py, core/enhanced_orchestrator.py).                  *)
(*                                                                         *)
(* A text is a sequence of one-character strings, so that the substring,   *)
(* split, strip and upper-casing operations of the source are computed on  *)
(* characters as Python computes them.                                     *)
(***************************************************************************)
EXTENDS Integers, Sequences, FiniteSets, TLC

VARIABLES
    pc,         \* position of the call / request being modelled
    schema,     \* the catalog: ordered dict table -> list of columns
    relations,  \* list of foreign-key relations
    intent,     \* the Intent handed to the planner
    conn,       \* the probe (database connection) handed to the planner
    sql,        \* the SQL text under validation / the request's local sql
    plan,       \* what generate_sql returned or raised
    verdict,    \* what validate_sql returned or raised
    response,   \* the dict handle_query returned
    executed,   \* SQL texts handed to the execution collaborator, in order
    variant,    \* which orchestrator runs the request
    user_input, \* the question text given to handle_query
    exec_error, \* the exception of the request's last failed execution, or NoExc
    reflex,     \* the EnhancedReflexAgent: history, counters, learning switch
    call,       \* the last correct_query call: its arguments and what it returned
    now         \* the clock that datetime.now() reads

vars == <<pc, schema, relations, intent, conn, sql, plan, verdict, response,
          executed, variant, user_input, exec_error, reflex, call, now>>

(***************************************************************************)
(* Bounds of the model.                                                    *)
(***************************************************************************)
MaxChunks == 3     \* pieces of an arbitrary SQL text given to validate_sql
MaxTables == 3     \* length of an intent's tables list
MaxCols   == 2     \* length of an intent's columns list
MaxRels   == 2     \* length of the relation list
MaxPhrases == 3    \* phrases of a question given to handle_query
MaxCalls  == 2     \* calls of correct_query on one agent
MaxNameLen == 3    \* characters of a name given to _calculate_similarity

(***************************************************************************)
(* Python values.                                                          *)
(***************************************************************************)
None == <<"<None>">>          \* Python's None (never equal to a text)

Truthy(v) == v # None /\ v # <<>>

SP == <<" ">>
NL == <<"\n">>
WS == {" ", "\n", "\t"}

kwSELECT    == <<"S", "E", "L", "E", "C", "T">>
kwFROM      == <<"F", "R", "O", "M">>
kwJOIN      == <<"J", "O", "I", "N">>
kwWHERE     == <<"W", "H", "E", "R", "E">>
kwON        == <<"O", "N">>
kwFROM_NONE == <<"F", "R", "O", "M", " ", "N", "O", "N", "E">>
kwNone      == <<"N", "o", "n", "e">>
kwCOUNT     == <<"C", "O", "U", "N", "T">>
kwDROP      == <<"D", "R", "O", "P", " ", "T", "A", "B", "L", "E">>
kwLIMIT1000 == <<" ", "L", "I", "M", "I", "T", " ", "1", "0", "0", "0">>

\* names used by the catalogs and inputs of the model
tSTUDENT    == <<"S", "T", "U", "D", "E", "N", "T">>
tDEPARTMENT == <<"D", "E", "P", "A", "R", "T", "M", "E", "N", "T">>
tCOURSE     == <<"C", "O", "U", "R", "S", "E">>
tstudents   == <<"s", "t", "u", "d", "e", "n", "t", "s">>
cSTU_FNAME  == <<"S", "T", "U", "_", "F", "N", "A", "M", "E">>
cSTU_GPA    == <<"S", "T", "U", "_", "G", "P", "A">>
cDEPT_CODE  == <<"D", "E", "P", "T", "_", "C", "O", "D", "E">>
cDEPT_NAME  == <<"D", "E", "P", "T", "_", "N", "A", "M", "E">>
cCRS_CODE   == <<"C", "R", "S", "_", "C", "O", "D", "E">>
cAGE        == <<"A", "G", "E">>
cname       == <<"n", "a", "m", "e">>

(***************************************************************************)
(* str methods, on sequences of characters.                                *)
(***************************************************************************)
LowerAlpha == <<"a","b","c","d","e","f","g","h","i","j","k","l","m",
                "n","o","p","q","r","s","t","u","v","w","x","y","z">>
UpperAlpha == <<"A","B","C","D","E","F","G","H","I","J","K","L","M",
                "N","O","P","Q","R","S","T","U","V","W","X","Y","Z">>
Digits     == {"0","1","2","3","4","5","6","7","8","9"}

UpperOf == [c \in {LowerAlpha[i] : i \in 1..26} |->
               UpperAlpha[CHOOSE i \in 1..26 : LowerAlpha[i] = c]]
LowerOf == [c \in {UpperAlpha[i] : i \in 1..26} |->
               LowerAlpha[CHOOSE i \in 1..26 : UpperAlpha[i] = c]]

\* s.upper()
upper(s) == [i \in 1..Len(s) |-> IF s[i] \in DOMAIN UpperOf THEN UpperOf[s[i]] ELSE s[i]]

\* s.lower()
lower(s) == [i \in 1..Len(s) |-> IF s[i] \in DOMAIN LowerOf THEN LowerOf[s[i]] ELSE s[i]]

\* sub occurs in s at (1-based) position i
OccursAt(s, sub, i) ==
    /\ i >= 1
    /\ i + Len(sub) - 1 <= Len(s)
    /\ \A k \in 1..Len(sub) : s[i + k - 1] = sub[k]

Occurrences(s, sub) == {i \in 1..(Len(s) - Len(sub) + 1) : OccursAt(s, sub, i)}

Min(S) == CHOOSE i \in S : \A j \in S : i <= j

\* sub in s
Contains(s, sub) == Occurrences(s, sub) # {}

\* s.find(sub): 0-based index of the first occurrence, -1 if there is none
find(s, sub) ==
    IF Contains(s, sub) THEN Min(Occurrences(s, sub)) - 1 ELSE -1

\* s[a:b] with Python's treatment of negative and out-of-range indices
PySlice(s, a, b) ==
    LET n     == Len(s)
        norm(k) == IF k < 0 THEN (IF n + k < 0 THEN 0 ELSE n + k)
                   ELSE (IF k > n THEN n ELSE k)
        lo    == norm(a)
        hi    == norm(b)
    IN  IF lo >= hi THEN <<>> ELSE SubSeq(s, lo + 1, hi)

\* s.strip()
RECURSIVE FirstNotIn(_, _, _)
FirstNotIn(s, i, chars) ==
    IF i > Len(s) \/ s[i] \notin chars THEN i ELSE FirstNotIn(s, i + 1, chars)

RECURSIVE LastNotIn(_, _, _)
LastNotIn(s, j, chars) ==
    IF j < 1 \/ s[j] \notin chars THEN j ELSE LastNotIn(s, j - 1, chars)

strip(s) == SubSeq(s, FirstNotIn(s, 1, WS), LastNotIn(s, Len(s), WS))

\* s.split(sep) for a non-empty separator
RECURSIVE split(_, _)
split(s, sep) ==
    LET p == find(s, sep)
    IN  IF p = -1 THEN <<s>>
        ELSE <<SubSeq(s, 1, p)>> \o split(SubSeq(s, p + Len(sep) + 1, Len(s)), sep)

\* s.replace(old, new) for a non-empty old
RECURSIVE replace(_, _, _)
replace(s, old, new) ==
    LET p == find(s, old)
    IN  IF p = -1 THEN s
        ELSE SubSeq(s, 1, p) \o new
               \o replace(SubSeq(s, p + Len(old) + 1, Len(s)), old, new)

\* re.split(r"\s+", s): cut at every maximal run of whitespace; the pieces are
\* the maximal runs of other characters, with an empty piece before a leading
\* and after a trailing run of whitespace
re_split_ws(s) ==
    LET n      == Len(s)
        starts == {i \in 1..n : s[i] \notin WS /\ (i = 1 \/ s[i - 1] \in WS)}
        ends   == {j \in 1..n : s[j] \notin WS /\ (j = n \/ s[j + 1] \in WS)}
        kth(S, k) == CHOOSE x \in S : Cardinality({y \in S : y < x}) = k - 1
        pieces == [k \in 1..Cardinality(starts) |->
                      SubSeq(s, kth(starts, k), kth(ends, k))]
        empty  == << <<>> >>
    IN  IF n = 0 THEN empty
        ELSE (IF s[1] \in WS THEN empty ELSE <<>>) \o pieces
                \o (IF s[n] \in WS THEN empty ELSE <<>>)

\* sep.join(parts)
RECURSIVE join(_, _)
join(sep, parts) ==
    IF parts = <<>> THEN <<>>
    ELSE IF Len(parts) = 1 THEN parts[1]
    ELSE parts[1] \o sep \o join(sep, Tail(parts))

Range(f) == {f[i] : i \in DOMAIN f}

(***************************************************************************)
(* The catalog: a Python dict table -> list of columns, in insertion order.*)
(***************************************************************************)
SchemaKeys(sch) == {sch[i].name : i \in 1..Len(sch)}

SchemaGet(sch, t) ==
    IF t \in SchemaKeys(sch)
    THEN sch[CHOOSE i \in 1..Len(sch) : sch[i].name = t].cols
    ELSE <<>>

(***************************************************************************)
(* core/sql_safety.py                                                      *)
(***************************************************************************)
extract_tables(text) ==
    LET tokens == re_split_ws(upper(text))
        hits   == {i \in 1..Len(tokens) :
                      tokens[i] \in {kwFROM, kwJOIN} /\ i + 1 <= Len(tokens)}
        kth(k) == CHOOSE i \in hits : Cardinality({j \in hits : j < i}) = k - 1
    IN  [k \in 1..Cardinality(hits) |->
            strip(replace(tokens[kth(k) + 1], <<",">>, <<>>))]

extract_column(c0) ==
    LET c == strip(c0)
    IN  IF Contains(c, <<"(">>)
        THEN strip(PySlice(c, find(c, <<"(">>) + 1, find(c, <<")">>)))
        ELSE IF Contains(c, <<".">>)
             THEN strip(split(c, <<".">>)[2])
             ELSE strip(c)

extract_columns(text) ==
    LET u == upper(text)
    IN  IF ~Contains(u, kwSELECT) \/ ~Contains(u, kwFROM) THEN <<>>
        ELSE LET select_part == replace(split(u, kwFROM)[1], kwSELECT, <<>>)
                 parts       == split(select_part, <<",">>)
             IN  [i \in 1..Len(parts) |-> extract_column(parts[i])]

SQLSafetyError(msg, arg) == [kind |-> "SQLSafetyError", msg |-> msg, arg |-> arg]
Accepted == [kind |-> "ok", msg |-> "", arg |-> <<>>]

\* first element of seq (in order) that satisfies the set bad, as <<found, elem>>
FirstIn(seq, bad) ==
    IF \E i \in 1..Len(seq) : seq[i] \in bad
    THEN seq[Min({i \in 1..Len(seq) : seq[i] \in bad})]
    ELSE None

\* a plausible slip: a trailing separator is tolerated
has_statement_separator_trailing_ok(sql_upper) ==
    Contains(SubSeq(sql_upper, 1, Len(sql_upper) - 1), <<";">>)

\* ";" in sql_upper
has_statement_separator(sql_upper) == Contains(sql_upper, <<";">>)

validate_sql(text, sch) ==
    IF text = None THEN SQLSafetyError("SQL is None", <<>>)
    ELSE
    LET sql_upper      == upper(text)
        schema_tables  == SchemaKeys(sch.tables)
        used_tables    == extract_tables(sql_upper)
        bad_tables     == {t \in Range(used_tables) : t \notin schema_tables}
        schema_columns == UNION {{upper(c) : c \in Range(sch.tables[i].cols)} :
                                   i \in 1..Len(sch.tables)}
        used_columns   == extract_columns(sql_upper)
        bad_columns    == {c \in Range(used_columns) :
                              c # <<"*">> /\ c # <<>> /\ upper(c) \notin schema_columns}
    IN  IF has_statement_separator(sql_upper)
            THEN SQLSafetyError("Multiple statements blocked", <<>>)
        ELSE IF Contains(sql_upper, kwFROM_NONE)
            THEN SQLSafetyError("Table resolution failed", <<>>)
        ELSE IF bad_tables # {}
            THEN SQLSafetyError("Illegal table used: ", FirstIn(used_tables, bad_tables))
        ELSE IF bad_columns # {}
            THEN SQLSafetyError("Illegal column used: ", FirstIn(used_columns, bad_columns))
        ELSE IF ~Contains(sql_upper, kwSELECT) \/ ~Contains(sql_upper, kwFROM)
            THEN SQLSafetyError("Not a valid SELECT query", <<>>)
        ELSE Accepted

(***************************************************************************)
(* agents/sql_planner_agent.py                                             *)
(***************************************************************************)
Return(v)  == [kind |-> "return", value |-> v]
Raise(exc) == [kind |-> "raise", value |-> exc]

\* an exception: its class, its message and the value formatted into it
Exc(kind, msg, arg) == [kind |-> kind, msg |-> msg, arg |-> arg]
NoExc == Exc("none", "", <<>>)

\* value.strip("'")
strip_quotes(s) == SubSeq(s, FirstNotIn(s, 1, {"'"}), LastNotIn(s, Len(s), {"'"}))

\* conn is None
ConnNone == [isNone |-> TRUE, rows |-> {}]

\* The probe: conn.rows is the set of <<table, column, value>> for which
\* "SELECT 1 FROM table WHERE column = ? LIMIT 1" fetches a row; any other
\* query fetches nothing or fails, which the source treats alike.
ProbePairs(tables, sch) ==
    LET RECURSIVE ofTables(_)
        ofTables(i) ==
            IF i > Len(tables) THEN <<>>
            ELSE LET cols == SchemaGet(sch, tables[i])
                 IN  [k \in 1..Len(cols) |-> <<tables[i], cols[k]>>] \o ofTables(i + 1)
    IN  ofTables(1)

find_column_for_value(cn, tables, sch, value) ==
    LET raw_value == strip_quotes(value)
        pairs     == ProbePairs(tables, sch)
        hits      == {i \in 1..Len(pairs) : <<pairs[i][1], pairs[i][2], raw_value>> \in cn.rows}
    IN  IF hits = {} THEN <<None, None>>
        ELSE pairs[Min(hits)]

\* the loop over relations: every matching relation overwrites join_condition
RECURSIVE join_condition(_, _, _, _, _)
join_condition(rels, t1, t2, i, jc) ==
    IF i > Len(rels) THEN jc
    ELSE LET rel == rels[i]
         IN  join_condition(rels, t1, t2, i + 1,
                IF rel.from_table = t1 /\ rel.to_table = t2
                THEN t1 \o <<".">> \o rel.from_column \o <<" ", "=", " ">>
                        \o t2 \o <<".">> \o rel.to_column
                ELSE IF rel.from_table = t2 /\ rel.to_table = t1
                THEN t2 \o <<".">> \o rel.from_column \o <<" ", "=", " ">>
                        \o t1 \o <<".">> \o rel.to_column
                ELSE jc)

InCols(c, sch, t) == c \in Range(SchemaGet(sch, t))

single_table_sql(table, columns, aggregation, where_column, where_operator, where_value) ==
    LET select_part ==
            IF Truthy(aggregation)
            THEN (IF columns # <<>>
                  THEN aggregation \o <<"(">> \o columns[1] \o <<")">>
                  ELSE aggregation \o <<"(", "*", ")">>)
            ELSE (IF columns # <<>> THEN join(<<",", " ">>, columns) ELSE <<"*">>)
        base == kwSELECT \o SP \o select_part \o SP \o kwFROM \o SP \o table
    IN  IF Truthy(where_column) /\ Truthy(where_operator) /\ Truthy(where_value)
        THEN Return(base \o SP \o kwWHERE \o SP \o where_column \o SP
                         \o where_operator \o SP \o where_value)
        ELSE Return(base)

two_table_sql(t1, t2, sch, rels, columns, where_column, where_operator, where_value) ==
    LET jc == join_condition(rels, t1, t2, 1, None)
        qualified(col) == IF InCols(col, sch, t1) THEN t1 \o <<".">> \o col
                          ELSE t2 \o <<".">> \o col
        select_cols == IF columns # <<>>
                       THEN [i \in 1..Len(columns) |-> qualified(columns[i])]
                       ELSE <<t1 \o <<".", "*">>, t2 \o <<".", "*">> >>
        select_part == join(<<",", " ">>, select_cols)
        base == strip(NL \o kwSELECT \o SP \o select_part \o NL
                         \o kwFROM \o SP \o t1 \o NL
                         \o kwJOIN \o SP \o t2 \o SP \o kwON \o SP \o jc \o NL)
    IN  IF jc = None THEN Return(None)
        ELSE IF \E i \in 1..Len(columns) :
                    ~InCols(columns[i], sch, t1) /\ ~InCols(columns[i], sch, t2)
            THEN Return(None)
        ELSE IF Truthy(where_column) /\ Truthy(where_operator) /\ Truthy(where_value)
            THEN (IF InCols(where_column, sch, t1)
                  THEN Return(base \o NL \o kwWHERE \o SP \o t1 \o <<".">> \o where_column
                                   \o SP \o where_operator \o SP \o where_value)
                  ELSE IF InCols(where_column, sch, t2)
                  THEN Return(base \o NL \o kwWHERE \o SP \o t2 \o <<".">> \o where_column
                                   \o SP \o where_operator \o SP \o where_value)
                  ELSE Return(None))
        ELSE Return(base)

\* "if not tables: tables = [main_table]"
referenced_tables(int) == IF int.tables = <<>> THEN <<int.table>> ELSE int.tables

\* "for t in tables: if t not in schema: return None"
tables_exist(tables, sch) == \A i \in 1..Len(tables) : tables[i] \in SchemaKeys(sch)

\* a plausible slip: the columns are looked up in the whole catalog
columns_exist_anywhere(columns, tables, sch) ==
    \A i \in 1..Len(columns) : \E k \in 1..Len(sch) : columns[i] \in Range(sch[k].cols)

\* "for c in columns: if not any(c in schema[t] for t in tables): return None"
columns_exist(columns, tables, sch) ==
    \A i \in 1..Len(columns) : \E k \in 1..Len(tables) : InCols(columns[i], sch, tables[k])

generate_sql(int, sch, rels, cn) ==
    LET tables0    == int.tables
        main_table == int.table
        columns    == int.columns
        tables     == referenced_tables(int)
        member(c)  == \E i \in 1..Len(tables) : InCols(c, sch, tables[i])
        need_fix   == Truthy(int.where_column) /\ ~member(int.where_column)
        fix        == find_column_for_value(cn, tables, sch,
                          IF Truthy(int.where_value) THEN int.where_value ELSE <<>>)
        where_column == IF need_fix THEN fix[2] ELSE int.where_column
    IN  IF tables0 = <<>> /\ ~Truthy(main_table) THEN Return(None)
        ELSE IF ~tables_exist(tables, sch) THEN Return(None)
        ELSE IF ~columns_exist(columns, tables, sch) THEN Return(None)
        ELSE IF need_fix /\ cn.isNone THEN Raise("AttributeError")
        ELSE IF need_fix /\ ~Truthy(fix[2]) THEN Return(None)
        ELSE IF Len(tables) = 1
            THEN single_table_sql(tables[1], columns, int.aggregation,
                                  where_column, int.where_operator, int.where_value)
        ELSE IF Len(tables) = 2
            THEN two_table_sql(tables[1], tables[2], sch, rels, columns,
                               where_column, int.where_operator, int.where_value)
        ELSE Return(None)

(***************************************************************************)
(* agents/nlu_agent.py, and the regular expressions it uses.               *)
(***************************************************************************)
\* \w
WordChars == {LowerAlpha[i] : i \in 1..26} \cup {UpperAlpha[i] : i \in 1..26}
                \cup Digits \cup {"_"}

IsWordAt(s, k) == k >= 1 /\ k <= Len(s) /\ s[k] \in WordChars

\* \b holds between the characters k-1 and k of s
Boundary(s, k) == IsWordAt(s, k - 1) # IsWordAt(s, k)

\* positions where r'\b' + re.escape(w) + r'\b' matches in s
WordOccurrences(s, w) ==
    {i \in Occurrences(s, w) : Boundary(s, i) /\ Boundary(s, i + Len(w))}

\* re.search(r'\b' + re.escape(w) + r'\b', s)
WordSearch(s, w) == WordOccurrences(s, w) # {}

\* last position of the maximal run of characters of C that starts at i
\* (i - 1 if s[i] is not in C)
RunEnd(s, i, C) ==
    LET stop == {j \in i..Len(s) : s[j] \notin C}
    IN  IF stop = {} THEN Len(s) ELSE Min(stop) - 1

NoMatch == [matched |-> FALSE, op |-> None, value |-> None, col |-> None]

\* \s*(=|>|<)\s*([\w\.]+) matched right after position e of s
OperatorTail(s, e) ==
    LET k == RunEnd(s, e + 1, WS) + 1
        m == RunEnd(s, k + 1, WS) + 1
        v == RunEnd(s, m, WordChars \cup {"."})
    IN  IF k <= Len(s) /\ s[k] \in {"=", ">", "<"} /\ v >= m
        THEN [matched |-> TRUE, op |-> <<s[k]>>, value |-> SubSeq(s, m, v), col |-> None]
        ELSE NoMatch

\* re.search(r'\b(\w+)\b\s*(=|>|<)\s*([\w\.]+)', s): the leftmost word that
\* is followed by an operator and a value
WhereSearch(s) ==
    LET starts == {i \in 1..Len(s) :
                      /\ IsWordAt(s, i) /\ ~IsWordAt(s, i - 1)
                      /\ OperatorTail(s, RunEnd(s, i, WordChars)).matched}
    IN  IF starts = {} THEN NoMatch
        ELSE LET i == Min(starts)
                 e == RunEnd(s, i, WordChars)
             IN  [OperatorTail(s, e) EXCEPT !.col = SubSeq(s, i, e)]

\* re.search(r'\b' + re.escape(col) + r'\b\s*(=|>|<)\s*([\w\.]+)', s, re.IGNORECASE)
\* for an upper-case col
ColumnWhereSearch(s, col) ==
    LET starts == {i \in WordOccurrences(upper(s), col) :
                      OperatorTail(s, i + Len(col) - 1).matched}
    IN  IF starts = {} THEN NoMatch
        ELSE [OperatorTail(s, Min(starts) + Len(col) - 1) EXCEPT !.col = col]

\* re.match(r'^\d+(\.\d+)?$', v)
IsNumeric(v) ==
    LET d == RunEnd(v, 1, Digits)
    IN  /\ d >= 1
        /\ \/ d = Len(v)
           \/ /\ d + 1 < Len(v)
              /\ v[d + 1] = "."
              /\ RunEnd(v, d + 2, Digits) = Len(v)

\* list(dict.fromkeys(seq))
RECURSIVE Dedup(_)
Dedup(seq) ==
    IF seq = <<>> THEN <<>>
    ELSE LET front == Dedup(SubSeq(seq, 1, Len(seq) - 1))
             last  == seq[Len(seq)]
         IN  IF last \in Range(front) THEN front ELSE Append(front, last)

\* [f(x) for x in seq if keep(x)] flattened: the concatenation of g[i], i in order
RECURSIVE Flatten(_)
Flatten(seqs) == IF seqs = <<>> THEN <<>> ELSE seqs[1] \o Flatten(Tail(seqs))

qq(v) == <<"'">> \o v \o <<"'">>

\* the words and operator phrases of the patterns, and the aggregations
kw ==
    [ count |-> <<"c", "o", "u", "n", "t">>,
      how_many |-> <<"h", "o", "w", " ", "m", "a", "n", "y">>,
      average |-> <<"a", "v", "e", "r", "a", "g", "e">>,
      avg |-> <<"a", "v", "g">>,
      maximum |-> <<"m", "a", "x", "i", "m", "u", "m">>,
      max |-> <<"m", "a", "x">>,
      minimum |-> <<"m", "i", "n", "i", "m", "u", "m">>,
      min |-> <<"m", "i", "n">>,
      greater_than |-> <<"g", "r", "e", "a", "t", "e", "r", " ", "t", "h", "a", "n">>,
      less_than |-> <<"l", "e", "s", "s", " ", "t", "h", "a", "n">>,
      equal_to |-> <<"e", "q", "u", "a", "l", " ", "t", "o">>,
      AVG |-> <<"A", "V", "G">>,
      MAX |-> <<"M", "A", "X">>,
      MIN |-> <<"M", "I", "N">> ]

detect_tables(text, sch) ==
    LET hit(i) ==
            LET table_l == lower(sch[i].name)
            IN  (IF WordSearch(text, table_l) THEN <<sch[i].name>> ELSE <<>>)
                \o (IF table_l # <<>> /\ table_l[Len(table_l)] = "s"
                       /\ WordSearch(text, SubSeq(table_l, 1, Len(table_l) - 1))
                    THEN <<sch[i].name>> ELSE <<>>)
    IN  Dedup(Flatten([i \in 1..Len(sch) |-> hit(i)]))

detect_columns(text, sch, detected_tables) ==
    LET ofTable(t) ==
            LET cols == SchemaGet(sch, t)
            IN  Flatten([k \in 1..Len(cols) |->
                    IF WordSearch(text, lower(cols[k])) THEN <<cols[k]>> ELSE <<>>])
    IN  Dedup(Flatten([i \in 1..Len(detected_tables) |-> ofTable(detected_tables[i])]))

detect_aggregation(text) ==
    IF WordSearch(text, kw.count) \/ WordSearch(text, kw.how_many) THEN kwCOUNT
    ELSE IF WordSearch(text, kw.average) \/ WordSearch(text, kw.avg) THEN kw.AVG
    ELSE IF WordSearch(text, kw.maximum) \/ WordSearch(text, kw.max) THEN kw.MAX
    ELSE IF WordSearch(text, kw.minimum) \/ WordSearch(text, kw.min) THEN kw.MIN
    ELSE None

\* the three where_* fields, as [c, o, v]
detect_where(original_text, text, sch) ==
    LET temp  == replace(replace(replace(text, kw.greater_than, <<">">>),
                                 kw.less_than, <<"<">>), kw.equal_to, <<"=">>)
        match == WhereSearch(temp)
        candidate_col == upper(match.col)
        all_columns == UNION {{upper(c) : c \in Range(sch[i].cols)} : i \in 1..Len(sch)}
        original_match == ColumnWhereSearch(original_text, candidate_col)
    IN  IF ~match.matched THEN [c |-> None, o |-> None, v |-> None]
        ELSE IF candidate_col \notin all_columns
            THEN [c |-> None, o |-> match.op, v |-> None]
        ELSE IF IsNumeric(match.value)
            THEN [c |-> candidate_col, o |-> match.op, v |-> match.value]
        ELSE IF original_match.matched
            THEN [c |-> candidate_col, o |-> match.op, v |-> qq(original_match.value)]
        ELSE [c |-> candidate_col, o |-> match.op, v |-> qq(match.value)]

\* a parse that takes the first candidate as the main table and column
parse_first_candidate(original_text, sch) ==
    LET text             == lower(original_text)
        detected_tables  == detect_tables(text, sch)
        detected_columns == detect_columns(text, sch, detected_tables)
        w                == detect_where(original_text, text, sch)
    IN  [table   |-> IF Len(detected_tables) >= 1 THEN detected_tables[1] ELSE None,
         tables  |-> detected_tables,
         column  |-> IF Len(detected_columns) >= 1 THEN detected_columns[1] ELSE None,
         columns |-> detected_columns,
         aggregation    |-> detect_aggregation(text),
         where_column   |-> w.c,
         where_operator |-> w.o,
         where_value    |-> w.v]

parse(original_text, sch) ==
    LET text             == lower(original_text)
        detected_tables  == detect_tables(text, sch)
        detected_columns == detect_columns(text, sch, detected_tables)
        w                == detect_where(original_text, text, sch)
    IN  [table   |-> IF Len(detected_tables) = 1 THEN detected_tables[1] ELSE None,
         tables  |-> detected_tables,
         column  |-> IF Len(detected_columns) = 1 THEN detected_columns[1] ELSE None,
         columns |-> detected_columns,
         aggregation    |-> detect_aggregation(text),
         where_column   |-> w.c,
         where_operator |-> w.o,
         where_value    |-> w.v]

(***************************************************************************)
(* agents/enhanced_nlu_agent.py: the structural extraction of              *)
(* _regex_fallback.  list(set(...)) leaves the order of the columns to the *)
(* hash seed of the run, so the result is a set of possible intents.       *)
(***************************************************************************)
\* the words the enhanced patterns add
kw_enhanced ==
    [ mean |-> <<"m", "e", "a", "n">>,
      highest |-> <<"h", "i", "g", "h", "e", "s", "t">>,
      lowest |-> <<"l", "o", "w", "e", "s", "t">>,
      sum |-> <<"s", "u", "m">>,
      total |-> <<"t", "o", "t", "a", "l">>,
      SUM |-> <<"S", "U", "M">> ]

semantic_mappings ==
    << [term |-> <<"n","a","m","e">>,
        variations |-> {<<"n","a","m","e">>, <<"f","u","l","l","_","n","a","m","e">>,
                        <<"f","i","r","s","t","_","n","a","m","e">>,
                        <<"l","a","s","t","_","n","a","m","e">>,
                        <<"u","s","e","r","n","a","m","e">>}],
       [term |-> <<"a","g","e">>,
        variations |-> {<<"a","g","e">>, <<"y","e","a","r","s">>,
                        <<"y","e","a","r","s","_","o","l","d">>,
                        <<"a","g","e","_","g","r","o","u","p">>}],
       [term |-> <<"s","c","o","r","e">>,
        variations |-> {<<"s","c","o","r","e">>, <<"m","a","r","k","s">>, <<"g","r","a","d","e">>,
                        <<"p","o","i","n","t","s">>, <<"r","a","t","i","n","g">>}],
       [term |-> <<"d","a","t","e">>,
        variations |-> {<<"d","a","t","e">>, <<"t","i","m","e">>, <<"c","r","e","a","t","e","d">>,
                        <<"u","p","d","a","t","e","d">>,
                        <<"t","i","m","e","s","t","a","m","p">>}],
       [term |-> <<"i","d">>,
        variations |-> {<<"i","d">>, <<"i","d","e","n","t","i","f","i","e","r">>,
                        <<"k","e","y">>, <<"p","k">>}] >>

\* the set that _enhanced_column_detection collects before list(set(...))
enhanced_column_set(text_lower, sch, detected_tables) ==
    LET table_cols == UNION {Range(SchemaGet(sch, detected_tables[i])) :
                                i \in 1..Len(detected_tables)}
        direct   == {c \in table_cols : WordSearch(text_lower, lower(c))}
        semantic == {c \in table_cols :
                        \E k \in 1..Len(semantic_mappings) :
                            /\ Contains(text_lower, semantic_mappings[k].term)
                            /\ lower(c) \in semantic_mappings[k].variations}
    IN  direct \cup semantic

\* the orders in which list(set(S)) can enumerate S
Orderings(S) ==
    {q \in [1..Cardinality(S) -> S] : \A i, j \in 1..Cardinality(S) : i # j => q[i] # q[j]}

enhanced_aggregation(text) ==
    IF WordSearch(text, kw.count) \/ WordSearch(text, kw.how_many) THEN kwCOUNT
    ELSE IF WordSearch(text, kw.average) \/ WordSearch(text, kw.avg)
            \/ WordSearch(text, kw_enhanced.mean) THEN kw.AVG
    ELSE IF WordSearch(text, kw.maximum) \/ WordSearch(text, kw.max)
            \/ WordSearch(text, kw_enhanced.highest) THEN kw.MAX
    ELSE IF WordSearch(text, kw.minimum) \/ WordSearch(text, kw.min)
            \/ WordSearch(text, kw_enhanced.lowest) THEN kw.MIN
    ELSE IF WordSearch(text, kw_enhanced.sum) \/ WordSearch(text, kw_enhanced.total) THEN kw_enhanced.SUM
    ELSE None

\* the intents EnhancedNLUAgent.parse can return for a question
enhanced_parse(original_text, sch) ==
    LET text            == lower(original_text)
        detected_tables == detect_tables(text, sch)
        column_set      == enhanced_column_set(text, sch, detected_tables)
        w               == detect_where(original_text, text, sch)
    IN  { [table   |-> IF Len(detected_tables) = 1 THEN detected_tables[1] ELSE None,
           tables  |-> detected_tables,
           column  |-> IF Len(detected_columns) = 1 THEN detected_columns[1] ELSE None,
           columns |-> detected_columns,
           aggregation    |-> enhanced_aggregation(text),
           where_column   |-> w.c,
           where_operator |-> w.o,
           where_value    |-> w.v] : detected_columns \in Orderings(column_set) }

(***************************************************************************)
(* core/performance_optimizer.py                                           *)
(***************************************************************************)
kwLIMIT == <<"L", "I", "M", "I", "T">>

\* re.search(r'LIMIT\s+\d+', q, re.IGNORECASE)
HasLimit(q) ==
    \E i \in Occurrences(upper(q), kwLIMIT) :
        LET e == RunEnd(q, i + 5, WS)
        IN  e >= i + 5 /\ e + 1 <= Len(q) /\ q[e + 1] \in Digits

\* re.match(r'^\s*SELECT\s+', q, re.IGNORECASE)
StartsWithSelect(q) ==
    LET k == RunEnd(q, 1, WS) + 1
    IN  OccursAt(upper(q), kwSELECT, k) /\ k + 6 <= Len(q) /\ q[k + 6] \in WS

\* the text optimize_query_execution returns
optimize_query_execution(query) ==
    IF ~HasLimit(query) /\ StartsWithSelect(query) THEN query \o kwLIMIT1000 ELSE query

(***************************************************************************)
(* agents/enhanced_reflex_agent.py                                         *)
(***************************************************************************)
\* the agent __init__ builds: an empty history, empty counters, learning on
EnhancedReflexAgent ==
    [correction_history |-> <<>>,
     error_patterns     |-> [p \in {} |-> 0],
     success_patterns   |-> [p \in {} |-> 0],
     learning_enabled   |-> TRUE]

\* the texts the agent looks for in its arguments and writes into its results
rx ==
    [ no_such_table |-> <<"n", "o", " ", "s", "u", "c", "h", " ", "t", "a", "b", "l", "e">>,
      no_such_table_c |-> <<"n", "o", " ", "s", "u", "c", "h", " ", "t", "a", "b", "l", "e", ":", " ">>,
      no_such_column |-> <<"n", "o", " ", "s", "u", "c", "h", " ", "c", "o", "l", "u", "m", "n">>,
      no_such_column_c |-> <<"n", "o", " ", "s", "u", "c", "h", " ", "c", "o", "l", "u", "m", "n", ":", " ">>,
      ambiguous_column_name |-> <<"a", "m", "b", "i", "g", "u", "o", "u", "s", " ", "c", "o", "l", "u", "m", "n", " ", "n", "a", "m", "e">>,
      syntax_error |-> <<"s", "y", "n", "t", "a", "x", " ", "e", "r", "r", "o", "r">>,
      aggregate |-> <<"a", "g", "g", "r", "e", "g", "a", "t", "e">>,
      GROUP_BY |-> <<"G", "R", "O", "U", "P", " ", "B", "Y">>,
      sp_GROUP_BY_sp |-> <<" ", "G", "R", "O", "U", "P", " ", "B", "Y", " ">>,
      unrecognized_token |-> <<"u", "n", "r", "e", "c", "o", "g", "n", "i", "z", "e", "d", " ", "t", "o", "k", "e", "n">>,
      ambiguous |-> <<"a", "m", "b", "i", "g", "u", "o", "u", "s">>,
      misuse |-> <<"m", "i", "s", "u", "s", "e">>,
      COUNT_open |-> <<"C", "O", "U", "N", "T", "(">>,
      COUNT_star |-> <<"C", "O", "U", "N", "T", "(", "*", ")">>,
      AVG_open |-> <<"A", "V", "G", "(">>,
      SUM |-> <<"S", "U", "M">>,
      AND |-> <<"A", "N", "D">>,
      OR |-> <<"O", "R">>,
      ORDER |-> <<"O", "R", "D", "E", "R">>,
      GROUP |-> <<"G", "R", "O", "U", "P">>,
      quoted_X |-> <<"'", "X", "'">>,
      N |-> <<"N">>,
      table_column |-> <<"t", "a", "b", "l", "e", ".", "c", "o", "l", "u", "m", "n">>,
      pattern_based |-> <<"p", "a", "t", "t", "e", "r", "n", "_", "b", "a", "s", "e", "d">>,
      schema_based |-> <<"s", "c", "h", "e", "m", "a", "_", "b", "a", "s", "e", "d">>,
      learning_based |-> <<"l", "e", "a", "r", "n", "i", "n", "g", "_", "b", "a", "s", "e", "d">>,
      fallback |-> <<"f", "a", "l", "l", "b", "a", "c", "k">>,
      plus_learning |-> <<"_", "l", "e", "a", "r", "n", "i", "n", "g">>,
      plus_fallback |-> <<"_", "f", "a", "l", "l", "b", "a", "c", "k">>,
      failed |-> <<"f", "a", "i", "l", "e", "d">> ]

\* _load_correction_rules: the correct names with their variations, in the
\* order of the dicts (function_mapping is never read)
correction_rules ==
    [ column_mapping |-> <<
          [name |-> <<"s", "c", "o", "r", "e">>,
           variations |-> <<<<"m", "a", "r", "k", "s">>,
                            <<"g", "r", "a", "d", "e">>,
                            <<"p", "o", "i", "n", "t", "s">>,
                            <<"r", "a", "t", "i", "n", "g">>>>],
          [name |-> <<"n", "a", "m", "e">>,
           variations |-> <<<<"f", "u", "l", "l", "_", "n", "a", "m", "e">>,
                            <<"s", "t", "u", "d", "e", "n", "t", "_", "n", "a", "m", "e">>,
                            <<"p", "e", "r", "s", "o", "n", "_", "n", "a", "m", "e">>>>],
          [name |-> <<"a", "g", "e">>,
           variations |-> <<<<"s", "t", "u", "d", "e", "n", "t", "_", "a", "g", "e">>,
                            <<"y", "e", "a", "r", "s">>,
                            <<"a", "g", "e", "_", "g", "r", "o", "u", "p">>>>],
          [name |-> <<"i", "d">>,
           variations |-> <<<<"s", "t", "u", "d", "e", "n", "t", "_", "i", "d">>,
                            <<"u", "s", "e", "r", "_", "i", "d">>,
                            <<"i", "d", "e", "n", "t", "i", "f", "i", "e", "r">>,
                            <<"p", "k">>>>],
          [name |-> <<"d", "a", "t", "e">>,
           variations |-> <<<<"c", "r", "e", "a", "t", "e", "d", "_", "d", "a", "t", "e">>,
                            <<"t", "i", "m", "e", "s", "t", "a", "m", "p">>,
                            <<"t", "i", "m", "e">>,
                            <<"c", "r", "e", "a", "t", "e", "d", "_", "a", "t">>>>],
          [name |-> <<"d", "e", "p", "a", "r", "t", "m", "e", "n", "t">>,
           variations |-> <<<<"d", "e", "p", "t">>,
                            <<"f", "a", "c", "u", "l", "t", "y">>,
                            <<"d", "i", "v", "i", "s", "i", "o", "n">>,
                            <<"c", "o", "l", "l", "e", "g", "e">>>>],
          [name |-> <<"e", "m", "a", "i", "l">>,
           variations |-> <<<<"e", "m", "a", "i", "l", "_", "a", "d", "d", "r", "e", "s", "s">>,
                            <<"m", "a", "i", "l">>,
                            <<"c", "o", "n", "t", "a", "c", "t", "_", "e", "m", "a", "i", "l">>>>]
        >>,
      table_mapping |-> <<
          [name |-> <<"s", "t", "u", "d", "e", "n", "t">>,
           variations |-> <<<<"s", "t", "u", "d", "e", "n", "t", "s">>,
                            <<"p", "u", "p", "i", "l", "s">>,
                            <<"l", "e", "a", "r", "n", "e", "r", "s">>>>],
          [name |-> <<"c", "o", "u", "r", "s", "e">>,
           variations |-> <<<<"c", "o", "u", "r", "s", "e", "s">>,
                            <<"s", "u", "b", "j", "e", "c", "t", "s">>,
                            <<"c", "l", "a", "s", "s", "e", "s">>>>],
          [name |-> <<"e", "n", "r", "o", "l", "l", "m", "e", "n", "t">>,
           variations |-> <<<<"e", "n", "r", "o", "l", "l", "m", "e", "n", "t", "s">>,
                            <<"r", "e", "g", "i", "s", "t", "r", "a", "t", "i", "o", "n", "s">>,
                            <<"s", "i", "g", "n", "u", "p", "s">>>>],
          [name |-> <<"i", "n", "s", "t", "r", "u", "c", "t", "o", "r">>,
           variations |-> <<<<"i", "n", "s", "t", "r", "u", "c", "t", "o", "r", "s">>,
                            <<"t", "e", "a", "c", "h", "e", "r", "s">>,
                            <<"p", "r", "o", "f", "e", "s", "s", "o", "r", "s">>,
                            <<"s", "t", "a", "f", "f">>>>],
          [name |-> <<"d", "e", "p", "a", "r", "t", "m", "e", "n", "t">>,
           variations |-> <<<<"d", "e", "p", "a", "r", "t", "m", "e", "n", "t", "s">>,
                            <<"d", "e", "p", "t", "s">>,
                            <<"f", "a", "c", "u", "l", "t", "i", "e", "s">>>>]
        >> ]

\* s with each span [x.from, x.to] of spans replaced by x.by; the spans are
\* disjoint, as the matches re.sub replaces are
RECURSIVE ReplaceSpans(_, _)
ReplaceSpans(s, spans) ==
    IF spans = {} THEN s
    ELSE LET x == CHOOSE y \in spans : \A z \in spans : z.from <= y.from
         IN  ReplaceSpans(SubSeq(s, 1, x.from - 1) \o x.by \o SubSeq(s, x.to + 1, Len(s)),
                          spans \ {x})

\* re.sub(rf'\b{re.escape(w)}\b', repl, s), with flags=re.IGNORECASE when ic
re_sub_word(s, w, repl, ic) ==
    LET hits == IF ic THEN WordOccurrences(lower(s), lower(w)) ELSE WordOccurrences(s, w)
    IN  ReplaceSpans(s, {[from |-> i, to |-> i + Len(w) - 1, by |-> repl] : i \in hits})

\* the positions where a maximal run of \w characters starts in s
WordStarts(s) == {i \in 1..Len(s) : IsWordAt(s, i) /\ ~IsWordAt(s, i - 1)}

\* set(re.findall(r'\b(\w+)\b', s))
words(s) == {SubSeq(s, i, RunEnd(s, i, WordChars)) : i \in WordStarts(s)}

\* _calculate_similarity, as the fraction <<numerator, denominator>>
calculate_similarity(str1, str2) ==
    IF str1 = str2 THEN <<1, 1>>
    ELSE LET n1 == Len(str1)
             n2 == Len(str2)
             m  == IF n1 < n2 THEN n1 ELSE n2
             common_prefix == Min({i \in 1..m : str1[i] # str2[i]} \cup {m + 1}) - 1
             common_suffix ==
                 Min({i \in 1..m : str1[n1 - i + 1] # str2[n2 - i + 1]} \cup {m + 1}) - 1
             max_len == IF n1 > n2 THEN n1 ELSE n2
         IN  <<common_prefix + common_suffix, max_len>>

\* _find_closest_match over valid_names in the order the loop visits them
find_closest_match(invalid_name, valid_names) ==
    LET invalid_lower == lower(invalid_name)
        n        == Len(valid_names)
        exact    == {i \in 1..n : lower(valid_names[i]) = invalid_lower}
        substr   == {i \in 1..n : \/ Contains(lower(valid_names[i]), invalid_lower)
                                  \/ Contains(invalid_lower, lower(valid_names[i]))}
        score(i) == calculate_similarity(invalid_lower, lower(valid_names[i]))
        \* score > best_score and score > 0.6, on fractions
        above(i) == 10 * score(i)[1] > 6 * score(i)[2]
        more(i, j) == score(i)[1] * score(j)[2] > score(j)[1] * score(i)[2]
        best     == {i \in 1..n : /\ above(i)
                                  /\ \A j \in 1..n : ~more(j, i)
                                  /\ \A j \in 1..(i - 1) : more(i, j)}
    IN  IF n = 0 THEN None
        ELSE IF exact # {} THEN valid_names[Min(exact)]
        ELSE IF substr # {} THEN valid_names[Min(substr)]
        ELSE IF best # {} THEN valid_names[Min(best)]
        ELSE None

\* the results _find_closest_match can have on a Python set of names, whose
\* iteration order follows the string hashes of the run
closest_in_set(invalid_name, names) ==
    {find_closest_match(invalid_name, q) : q \in Orderings(names)}

\* the first correction rule that lists the name among its variations
mapped_name(rules, name) ==
    LET hit == {k \in 1..Len(rules) : lower(name) \in {lower(v) : v \in Range(rules[k].variations)}}
    IN  IF hit = {} THEN None ELSE rules[Min(hit)].name

\* _suggest_table_correction
suggest_table_correction(invalid_table, sch) ==
    LET keys  == [i \in 1..Len(sch) |-> sch[i].name]
        exact == {i \in 1..Len(keys) : lower(keys[i]) = lower(invalid_table)}
    IN  IF mapped_name(correction_rules.table_mapping, invalid_table) # None
        THEN mapped_name(correction_rules.table_mapping, invalid_table)
        ELSE IF exact # {} THEN keys[Min(exact)]
        ELSE find_closest_match(invalid_table, keys)

\* the set all_columns
all_columns(sch) == UNION {Range(sch[i].cols) : i \in 1..Len(sch)}

\* _suggest_column_correction: the suggestions it can return
suggest_column_correction(invalid_column, sch) ==
    IF mapped_name(correction_rules.column_mapping, invalid_column) # None
    THEN {mapped_name(correction_rules.column_mapping, invalid_column)}
    ELSE closest_in_set(invalid_column, all_columns(sch))

\* an entry of a corrections list: the kind of the message and the names in it
Correction(what, from, to) == [what |-> what, from |-> from, to |-> to]

\* the matches of M that a left-to-right scan from position p keeps: the
\* leftmost one, then the leftmost one that starts after its end, and so on
RECURSIVE LeftmostDisjoint(_, _)
LeftmostDisjoint(M, p) ==
    LET later == {m \in M : m.from >= p}
    IN  IF later = {} THEN {}
        ELSE LET x == CHOOSE y \in later : \A z \in later : y.from <= z.from
             IN  {x} \cup LeftmostDisjoint(M, x.to + 1)

\* re.search(prefix + r"(\w+)", s).group(1), None without a match
re_search_word_after(s, prefix) ==
    LET hits == {i \in Occurrences(s, prefix) : IsWordAt(s, i + Len(prefix))}
    IN  IF hits = {} THEN None
        ELSE SubSeq(s, Min(hits) + Len(prefix),
                    RunEnd(s, Min(hits) + Len(prefix), WordChars))

\* str.isalpha() on ASCII text
isalpha(s) ==
    s # <<>> /\ \A i \in 1..Len(s) : s[i] \in DOMAIN UpperOf \cup DOMAIN LowerOf

\* re.search(r'SELECT\s+(.+?)\s+FROM', query, re.IGNORECASE), the group split at
\* ',' and stripped, without the items that name an aggregate function:
\* non_agg_cols, and <<>> when the search finds nothing
non_agg_cols(query) ==
    LET u == upper(query)
        n == Len(query)
        \* the group may end at j: whitespace follows, then FROM
        J == {j \in 1..(n - 1) : query[j + 1] \in WS
                                  /\ OccursAt(u, kwFROM, RunEnd(query, j + 1, WS) + 1)}
        \* the group s[g..j]: '.' does not match a newline
        fits(g, j) == j >= g /\ \A k \in g..j : query[k] # "\n"
        \* \s+ is greedy: the group starts as late as possible
        starts(i) == {g \in (i + 7)..(RunEnd(query, i + 6, WS) + 1) :
                         \E j \in J : fits(g, j)}
        found == {i \in Occurrences(u, kwSELECT) : starts(i) # {}}
        i0 == Min(found)
        g0 == CHOOSE g \in starts(i0) : \A h \in starts(i0) : h <= g
        j0 == Min({j \in J : fits(g0, j)})
        parts == split(SubSeq(query, g0, j0), <<",">>)
        cols  == [k \in 1..Len(parts) |-> strip(parts[k])]
        agg(c) == \E a \in {kwCOUNT, rx.SUM, kw.AVG, kw.MAX, kw.MIN} : Contains(upper(c), a)
        keep  == {k \in 1..Len(cols) : ~agg(cols[k])}
        kth(k) == CHOOSE x \in keep : Cardinality({y \in keep : y < x}) = k - 1
    IN  IF found = {} THEN <<>>
        ELSE [k \in 1..Cardinality(keep) |-> cols[kth(k)]]

\* re.findall(r'=\s*(\w+)\s*(?:WHERE|AND|OR)', query), and with at_end the
\* pattern that also ends in '$': the values in the order of their '='.
\* \w+ gives characters back until a keyword follows it.
unquoted_values(query, at_end) ==
    LET n == Len(query)
        key(p) == \/ \E w \in {kwWHERE, rx.AND, rx.OR} : OccursAt(query, w, p)
                  \/ (at_end /\ p = n + 1)
        first(i) == RunEnd(query, i + 1, WS) + 1
        last(i)  == RunEnd(query, first(i), WordChars)
        ends(i)  == {e \in first(i)..last(i) :
                        IF e = last(i) THEN key(RunEnd(query, e + 1, WS) + 1)
                        ELSE key(e + 1)}
        eqs  == {i \in 1..n : query[i] = "=" /\ ends(i) # {}}
        kth(k) == CHOOSE x \in eqs : Cardinality({y \in eqs : y < x}) = k - 1
        value(i) == SubSeq(query, first(i), CHOOSE e \in ends(i) : \A f \in ends(i) : f <= e)
    IN  [k \in 1..Cardinality(eqs) |-> value(kth(k))]

\* the value of a one-element set
The(S) == CHOOSE x \in S : TRUE

\* SELECT\s+\w+\s+\w+\s+FROM in t: the matches, each with the gap between its
\* two words
two_words(t) ==
    LET at(i) ==
            LET e1 == RunEnd(t, i + 6, WS)
                w1 == RunEnd(t, e1 + 1, WordChars)
                e2 == RunEnd(t, w1 + 1, WS)
                w2 == RunEnd(t, e2 + 1, WordChars)
                e3 == RunEnd(t, w2 + 1, WS)
            IN  [ok |-> /\ e1 >= i + 6 /\ w1 > e1 /\ e2 > w1 /\ w2 > e2 /\ e3 > w2
                        /\ OccursAt(t, kwFROM, e3 + 1),
                 from |-> i, to |-> e3 + 4, gap_from |-> w1 + 1, gap_to |-> e2]
    IN  {m \in {at(i) : i \in Occurrences(t, kwSELECT)} : m.ok}

\* _fix_syntax_errors: the text and the corrections of the list it returns
fix_syntax_errors(query, error_message) ==
    LET \* re.sub(r'(SELECT\s+\w+)\s+(\w+)(\s+FROM)', r'\1, \2\3', query)
        with_comma(found) ==
            ReplaceSpans(query, {[from |-> x.gap_from, to |-> x.gap_to, by |-> <<",", " ">>] :
                                    x \in found})
        \* (COUNT|SUM|AVG|MAX|MIN)\s*\( , re.IGNORECASE
        agg_functions(u) ==
            {i \in 1..Len(query) :
                \E a \in {kwCOUNT, rx.SUM, kw.AVG, kw.MAX, kw.MIN} :
                    /\ OccursAt(u, a, i)
                    /\ OccursAt(query, <<"(">>, RunEnd(query, i + Len(a), WS) + 1)}
        \* re.sub(rf'=\s*{re.escape(var)}\s', f"= '{var}' ", t)
        quote(t, var) ==
            ReplaceSpans(t, {[from |-> i, to |-> RunEnd(t, i + 1, WS) + 1 + Len(var),
                              by |-> <<"=", " ">> \o qq(var) \o <<" ">>] :
                                i \in {i \in 1..Len(t) :
                                         /\ t[i] = "="
                                         /\ OccursAt(t, var, RunEnd(t, i + 1, WS) + 1)
                                         /\ RunEnd(t, i + 1, WS) + 1 + Len(var) <= Len(t)
                                         /\ t[RunEnd(t, i + 1, WS) + 1 + Len(var)] \in WS}})
        RECURSIVE quoted(_, _, _)
        quoted(string_vars, k, acc) ==
            IF k > Len(string_vars) THEN acc
            ELSE IF isalpha(string_vars[k])
            THEN The({quoted(string_vars, k + 1,
                             [sql |-> t,
                              corrections |-> Append(acc.corrections,
                                                     Correction("Added quotes to string variable",
                                                                None, string_vars[k]))]) :
                         t \in {quote(acc.sql, string_vars[k])}})
            ELSE quoted(string_vars, k + 1, acc)
    IN  The({quoted(string_vars, 1,
                    [sql |-> IF group THEN sql1 \o rx.sp_GROUP_BY_sp \o cols[1] ELSE sql1,
                     corrections |->
                         (IF comma THEN <<Correction("Added missing comma in SELECT list",
                                                     None, None)>> ELSE <<>>)
                         \o (IF group THEN <<Correction("Added GROUP BY", None, cols[1])>>
                             ELSE <<>>)]) :
                comma \in {two_words(upper(query)) # {}},
                sql1 \in {with_comma(LeftmostDisjoint(two_words(query), 1))},
                cols \in {non_agg_cols(query)},
                group \in {/\ Contains(lower(error_message), rx.aggregate)
                           /\ ~Contains(upper(query), rx.GROUP_BY)
                           /\ agg_functions(upper(query)) # {}
                           /\ non_agg_cols(query) # <<>>},
                string_vars \in {unquoted_values(query, FALSE)}})

\* _pattern_based_correction: the results it can have, each the text and the
\* list of corrections
pattern_based_correction(query, error_message, sch) ==
    LET e    == lower(error_message)
        same == [sql |-> query, corrections |-> <<>>]
        rewrite(what, invalid, suggested) ==
            IF Truthy(suggested) /\ suggested # invalid
            THEN [sql |-> re_sub_word(query, invalid, suggested, TRUE),
                  corrections |-> <<Correction(what, invalid, suggested)>>]
            ELSE same
    IN  IF Contains(e, rx.no_such_table)
        THEN UNION {IF invalid_table = None THEN {same}
                    ELSE {rewrite("Table", invalid_table, suggested_table) :
                             suggested_table \in
                                 {suggest_table_correction(invalid_table, sch)}} :
                       invalid_table \in {re_search_word_after(e, rx.no_such_table_c)}}
        ELSE IF Contains(e, rx.no_such_column)
        THEN UNION {IF invalid_column = None THEN {same}
                    ELSE {rewrite("Column", invalid_column, suggested_column) :
                             suggested_column \in
                                 suggest_column_correction(invalid_column, sch)} :
                       invalid_column \in {re_search_word_after(e, rx.no_such_column_c)}}
        \* each table of tables_in_query is a pair of groups, never a key of schema
        ELSE IF Contains(e, rx.ambiguous_column_name) THEN {same}
        ELSE IF Contains(e, rx.syntax_error) THEN {fix_syntax_errors(query, error_message)}
        ELSE {same}

\* _schema_based_correction: the results it can have.  The loops run over
\* Python sets (qt and qc: the orders of all_tables and all_columns; the orders
\* of tables_in_sql and columns_in_sql matter only for the words that get a
\* suggestion, the other words change nothing).
schema_based_correction(query, error_message, sch) ==
    LET all_tables == SchemaKeys(sch)
        RECURSIVE loop(_, _, _, _, _)
        loop(what, names, order, k, acc) ==
            IF k > Len(order) THEN acc
            ELSE loop(what, names, order, k + 1,
                      [sql |-> re_sub_word(acc.sql, order[k],
                                           find_closest_match(order[k], names), TRUE),
                       corrections |->
                           Append(acc.corrections,
                                  Correction(what, order[k],
                                             find_closest_match(order[k], names)))])
        suggested(S, names) == {w \in words(query) \ S : Truthy(find_closest_match(w, names))}
        tables(qt) ==
            {loop("Table (schema match)", qt, order, 1, [sql |-> query, corrections |-> <<>>]) :
                order \in Orderings(suggested(all_tables, qt))}
        columns(qc, r) ==
            {loop("Column (schema match)", qc, order, 1, r) :
                order \in Orderings(suggested(all_columns(sch), qc))}
    IN  UNION {UNION {columns(qc, r) : r \in tables(qt)} :
                  qt \in Orderings(all_tables), qc \in Orderings(all_columns(sch))}

\* _extract_error_pattern
extract_error_pattern(error_message) ==
    LET p0 == lower(error_message)
        \* '[^']*'
        quotes(t) == {[from |-> i, to |-> Min({j \in (i + 1)..Len(t) : t[j] = "'"}),
                       by |-> rx.quoted_X] :
                         i \in {i \in 1..Len(t) : t[i] = "'" /\ \E j \in (i + 1)..Len(t) : t[j] = "'"}}
        p1 == ReplaceSpans(p0, LeftmostDisjoint(quotes(p0), 1))
        \* \b\d+\b
        numbers(t) == {[from |-> i, to |-> RunEnd(t, i, WordChars), by |-> rx.N] :
                          i \in {i \in WordStarts(t) : RunEnd(t, i, Digits) = RunEnd(t, i, WordChars)}}
        p2 == ReplaceSpans(p1, numbers(p1))
        \* \b\w+\.\w+\b
        dotted(t) == {[from |-> i, to |-> RunEnd(t, RunEnd(t, i, WordChars) + 2, WordChars),
                       by |-> rx.table_column] :
                         i \in {i \in WordStarts(t) :
                                  /\ OccursAt(t, <<".">>, RunEnd(t, i, WordChars) + 1)
                                  /\ IsWordAt(t, RunEnd(t, i, WordChars) + 2)}}
    IN  ReplaceSpans(p2, LeftmostDisjoint(dotted(p2), 1))

KeyError(key) == Exc("KeyError", "", key)

\* _learning_based_correction: what it returns, or the exception of a record
\* that lacks a key the list comprehension reads
learning_based_correction(agent, query, error_message) ==
    LET error_pattern == extract_error_pattern(error_message)
        h == agent.correction_history
        same == [sql |-> query, corrections |-> <<>>]
        no_pattern == {i \in 1..Len(h) : "error_pattern" \notin DOMAIN h[i]}
        no_success == {i \in 1..Len(h) : /\ i \notin no_pattern
                                        /\ h[i].error_pattern = error_pattern
                                        /\ "success" \notin DOMAIN h[i]}
        similar == {i \in 1..Len(h) : h[i].error_pattern = error_pattern /\ h[i].success}
        \* max(similar_corrections, key=timestamp): the first of the latest
        best == Min({i \in similar : \A j \in similar : h[j].timestamp <= h[i].timestamp})
    IN  IF error_pattern \notin DOMAIN agent.error_patterns THEN Return(same)
        ELSE IF no_pattern \cup no_success # {}
        THEN Raise(KeyError(IF Min(no_pattern \cup no_success) \in no_pattern
                            THEN "error_pattern" ELSE "success"))
        ELSE IF similar = {} THEN Return(same)
        ELSE Return([sql |-> h[best].corrected_sql,
                     corrections |-> <<Correction("Applied learned correction from",
                                                  h[best].timestamp, None)>>])

\* _fix_aggregation_errors
fix_aggregation_errors(query) ==
    LET u == upper(query)
        fixed(cols, count, avg) ==
            [sql |-> (IF count
                      THEN replace(query, rx.COUNT_star, rx.COUNT_open \o cols[1] \o <<")">>)
                      ELSE query)
                     \o (IF avg THEN rx.sp_GROUP_BY_sp \o cols[1] ELSE <<>>),
             corrections |->
                 (IF count THEN <<Correction("Changed COUNT(*) to COUNT", None, cols[1])>>
                  ELSE <<>>)
                 \o (IF avg THEN <<Correction("Added GROUP BY for AVG function", None, cols[1])>>
                     ELSE <<>>)]
    IN  The({fixed(cols,
                   /\ Contains(u, rx.COUNT_open) /\ Contains(u, rx.GROUP_BY)
                   /\ Contains(u, rx.COUNT_star) /\ cols # <<>>,
                   Contains(u, rx.AVG_open) /\ ~Contains(u, rx.GROUP_BY) /\ cols # <<>>) :
                cols \in {non_agg_cols(query)}})

\* repr() of a tuple of the two groups of FROM\s+(\w+)|JOIN\s+(\w+)
tuple_repr(a, b) == <<"(">> \o qq(a) \o <<",", " ">> \o qq(b) \o <<")">>

\* _fallback_correction
fallback_correction(query, error_message, sch) ==
    LET e == lower(error_message)
        u == upper(query)
        same == [sql |-> query, corrections |-> <<>>]
        \* re.sub(rf'=\s*{re.escape(var)}\s*', f"= '{var}'", t)
        quote(t, var) ==
            LET at(i) == RunEnd(t, i + 1, WS) + 1
                hits  == {i \in 1..Len(t) : t[i] = "=" /\ OccursAt(t, var, at(i))}
            IN  ReplaceSpans(t, {[from |-> i, to |-> RunEnd(t, at(i) + Len(var), WS),
                                  by |-> <<"=", " ">> \o qq(var)] : i \in hits})
        RECURSIVE quoted(_, _, _)
        quoted(unquoted_strings, k, acc) ==
            IF k > Len(unquoted_strings) THEN acc
            ELSE IF isalpha(unquoted_strings[k])
            THEN The({quoted(unquoted_strings, k + 1,
                             [sql |-> t,
                              corrections |-> Append(acc.corrections,
                                                     Correction("Added quotes to", None,
                                                                unquoted_strings[k]))]) :
                         t \in {quote(acc.sql, unquoted_strings[k])}})
            ELSE quoted(unquoted_strings, k + 1, acc)
        \* re.findall(r'FROM\s+(\w+)|JOIN\s+(\w+)', query, re.IGNORECASE): the
        \* tuples as repr() writes them, in the order of the matches
        named(i, word) == /\ OccursAt(u, word, i)
                          /\ RunEnd(query, i + Len(word), WS) >= i + Len(word)
                          /\ IsWordAt(query, RunEnd(query, i + Len(word), WS) + 1)
        name_end(i, word) == RunEnd(query, RunEnd(query, i + Len(word), WS) + 1, WordChars)
        name_of(i, word) == SubSeq(query, RunEnd(query, i + Len(word), WS) + 1,
                                   name_end(i, word))
        found == LeftmostDisjoint(
                     {[from |-> i, to |-> name_end(i, kwFROM),
                       by |-> tuple_repr(name_of(i, kwFROM), <<>>)] :
                          i \in {i \in 1..Len(query) : named(i, kwFROM)}}
                     \cup {[from |-> i, to |-> name_end(i, kwJOIN),
                            by |-> tuple_repr(<<>>, name_of(i, kwJOIN))] :
                              i \in {i \in 1..Len(query) : named(i, kwJOIN)}}, 1)
        in_order(S) == [k \in 1..Cardinality(S) |->
                           CHOOSE x \in S : Cardinality({y \in S : y.from < x.from}) = k - 1]
        \* re.findall(r'\b(\w+)\b(?=\s*(?:WHERE|AND|OR|ORDER|GROUP|$))', query)
        before_key ==
            {[from |-> i, by |-> SubSeq(query, i, RunEnd(query, i, WordChars))] :
                i \in {i \in WordStarts(query) :
                         \E p \in {RunEnd(query, RunEnd(query, i, WordChars) + 1, WS) + 1} :
                             \/ p = Len(query) + 1
                             \/ \E w \in {kwWHERE, rx.AND, rx.OR, rx.ORDER, rx.GROUP} :
                                    OccursAt(query, w, p)}}
        \* the two loops, flattened: step n is table (n - 1) \div M + 1 with
        \* match (n - 1) % M + 1
        RECURSIVE qualified(_, _, _, _)
        qualified(tables, matches, n, acc) ==
            IF n > Len(tables) * Len(matches) THEN acc
            ELSE The({qualified(tables, matches, n + 1,
                                [sql |-> re_sub_word(acc.sql, match,
                                                     table \o <<".">> \o match, FALSE),
                                 corrections |-> Append(acc.corrections,
                                                        Correction("Qualified column",
                                                                   match, table))]) :
                         table \in {tables[((n - 1) \div Len(matches)) + 1].by},
                         match \in {matches[((n - 1) % Len(matches)) + 1].by}})
        step1(unquoted_strings) ==
            IF Contains(e, rx.unrecognized_token) THEN quoted(unquoted_strings, 1, same)
            ELSE same
        step2(tables, matches, acc) ==
            IF Contains(e, rx.ambiguous) /\ Contains(u, kwJOIN) /\ Len(tables) > 1
            THEN qualified(tables, matches, 1, acc)
            ELSE acc
        step3(acc, agg) ==
            IF Contains(e, rx.misuse) /\ Contains(e, rx.aggregate)
            THEN [sql |-> agg.sql, corrections |-> acc.corrections \o agg.corrections]
            ELSE acc
    IN  The({step3(acc2, agg) :
                acc2 \in {The({step2(tables, matches, acc1) :
                                  tables \in {in_order(found)},
                                  matches \in {in_order(before_key)},
                                  acc1 \in {The({step1(unquoted_strings) :
                                                    unquoted_strings \in
                                                        {unquoted_values(query, TRUE)}})}})},
                agg \in {fix_aggregation_errors(query)}})

TypeError(msg) == Exc("TypeError", msg, None)

\* a confidence that takes no strategy for the empty name and has no rule for
\* a repair without corrections
calculate_correction_confidence_of_base(correction_info) ==
    LET strategy == correction_info.strategy
        base_confidence ==
            IF Contains(strategy, rx.pattern_based) THEN 80
            ELSE IF Contains(strategy, rx.schema_based) THEN 90
            ELSE IF Contains(strategy, rx.learning_based) THEN 70
            ELSE IF Contains(strategy, rx.fallback) THEN 60
            ELSE 50
        num_corrections == Len(correction_info.corrections_applied)
        by_number == IF num_corrections = 1 THEN base_confidence + 10
                     ELSE IF num_corrections > 3 THEN base_confidence - 20
                     ELSE base_confidence
    IN  Return(IF by_number > 100 THEN 100 ELSE by_number)

\* _calculate_correction_confidence, in hundredths; execution_time is in
\* milliseconds
calculate_correction_confidence(correction_info) ==
    LET strategy == correction_info.strategy
        base_confidence ==
            IF Contains(strategy, rx.pattern_based) THEN 80
            ELSE IF Contains(strategy, rx.schema_based) THEN 90
            ELSE IF Contains(strategy, rx.learning_based) THEN 70
            ELSE IF Contains(strategy, rx.fallback) THEN 60
            ELSE 50
        num_corrections == Len(correction_info.corrections_applied)
        by_number == IF num_corrections = 1 THEN base_confidence + 10
                     ELSE IF num_corrections > 3 THEN base_confidence - 20
                     ELSE base_confidence
        by_time == IF correction_info.execution_time > 1000 THEN by_number - 10 ELSE by_number
    IN  \* "pattern_based" in None
        IF strategy = None THEN Raise(TypeError("argument of type 'NoneType' is not iterable"))
        ELSE IF num_corrections = 0 THEN Return(0)
        ELSE Return(IF by_time < 0 THEN 0 ELSE IF by_time > 100 THEN 100 ELSE by_time)

HistoryCapacity == 1000

\* d[key] += 1 on a defaultdict(int)
Increment(d, key) ==
    [x \in DOMAIN d \cup {key} |-> IF x = key THEN (IF key \in DOMAIN d THEN d[key] ELSE 0) + 1
                                   ELSE d[x]]

\* the log_entry dict of _log_correction at time t
log_entry(correction_info, t) ==
    [timestamp           |-> t,
     original_sql        |-> correction_info.original_sql,
     corrected_sql       |-> correction_info.corrected_sql,
     error_message       |-> correction_info.error_message,
     strategy            |-> correction_info.strategy,
     corrections_applied |-> correction_info.corrections_applied,
     confidence          |-> correction_info.confidence,
     execution_time      |-> correction_info.execution_time]

\* a log that keeps the oldest records once the capacity is exceeded
log_correction_keeping_oldest(agent, correction_info, t) ==
    LET appended == Append(agent.correction_history, log_entry(correction_info, t))
    IN  [agent EXCEPT
            !.correction_history =
                IF Len(appended) > HistoryCapacity
                THEN SubSeq(appended, 1, HistoryCapacity)
                ELSE appended]

\* _log_correction at time t: the agent afterwards
log_correction(agent, correction_info, t) ==
    LET appended == Append(agent.correction_history, log_entry(correction_info, t))
        error_pattern == extract_error_pattern(correction_info.error_message)
        changed == correction_info.corrected_sql # correction_info.original_sql
    IN  [agent EXCEPT
            !.correction_history =
                IF Len(appended) > HistoryCapacity
                THEN SubSeq(appended, Len(appended) - HistoryCapacity + 1, Len(appended))
                ELSE appended,
            !.success_patterns = IF changed THEN Increment(@, error_pattern) ELSE @,
            !.error_patterns   = IF changed THEN @ ELSE Increment(@, error_pattern)]

\* correct_query runs every strategy whatever the text is by then
strategy_runs_always(strategy, learning_enabled, corrected_sql, query) ==
    strategy \in {rx.pattern_based, rx.schema_based, rx.learning_based, rx.fallback}

\* the conditions under which correct_query runs a strategy: the first
\* unconditionally, the others `if corrected_sql == sql`, the third
\* `if self.learning_enabled and corrected_sql == sql`
strategy_runs(strategy, learning_enabled, corrected_sql, query) ==
    CASE strategy = rx.pattern_based  -> TRUE
      [] strategy = rx.schema_based   -> corrected_sql = query
      [] strategy = rx.learning_based -> learning_enabled /\ corrected_sql = query
      [] strategy = rx.fallback       -> corrected_sql = query

\* correct_query at time t, taking `elapsed` milliseconds: the outcomes it can
\* have.  An outcome is the returned pair (corrected_sql, correction_info),
\* the agent afterwards, and `tried`: the strategies that ran, in order, each
\* with the text it returned.  correction_info.corrected_sql is None where the
\* dict has no such key.
correct_query(agent, query, error_message, sch, t, elapsed) ==
    LET correction_info ==
            [original_sql |-> query, error_message |-> error_message,
             corrections_applied |-> <<>>, confidence |-> 0, strategy |-> None,
             execution_time |-> 0, corrected_sql |-> None]
        start == [sql |-> query, info |-> correction_info, tried |-> <<>>, exc |-> NoExc]
        ran(a, name, r, strategy) ==
            [sql   |-> r.sql,
             info  |-> IF r.sql # query
                       THEN [a.info EXCEPT
                                !.corrections_applied = @ \o r.corrections,
                                !.strategy = strategy]
                       ELSE a.info,
             tried |-> Append(a.tried, [strategy |-> name, returned |-> r.sql]),
             exc   |-> NoExc]
        combined(a, suffix, alone) ==
            IF Truthy(a.info.strategy) THEN a.info.strategy \o suffix ELSE alone
        strategy1(a) ==
            {ran(a, rx.pattern_based, r, rx.pattern_based) :
                r \in pattern_based_correction(query, error_message, sch)}
        strategy2(a) ==
            IF strategy_runs(rx.schema_based, agent.learning_enabled, a.sql, query)
            THEN {ran(a, rx.schema_based, r, rx.schema_based) :
                     r \in schema_based_correction(a.sql, error_message, sch)}
            ELSE {a}
        strategy3(a) ==
            IF strategy_runs(rx.learning_based, agent.learning_enabled, a.sql, query)
            THEN {IF r.kind = "raise"
                  THEN [a EXCEPT !.exc = r.value,
                                 !.tried = Append(@, [strategy |-> rx.learning_based,
                                                      returned |-> None])]
                  ELSE ran(a, rx.learning_based, r.value,
                           combined(a, rx.plus_learning, rx.learning_based)) :
                     r \in {learning_based_correction(agent, a.sql, error_message)}}
            ELSE {a}
        strategy4(a) ==
            IF a.exc = NoExc
               /\ strategy_runs(rx.fallback, agent.learning_enabled, a.sql, query)
            THEN {ran(a, rx.fallback, r, combined(a, rx.plus_fallback, rx.fallback)) :
                     r \in {fallback_correction(a.sql, error_message, sch)}}
            ELSE {a}
        \* the except branch
        failed(a) ==
            [corrected_sql |-> query,
             info  |-> [a.info EXCEPT !.strategy = rx.failed, !.execution_time = elapsed],
             agent |-> agent,
             tried |-> a.tried]
        \* lines 115 to 122, with the confidence that line 115 computed
        logged(a, confidence) ==
            {[corrected_sql |-> a.sql,
              info  |-> info,
              agent |-> log_correction(agent, info, t),
              tried |-> a.tried] :
                 info \in {[a.info EXCEPT !.confidence = confidence,
                                          !.corrected_sql = a.sql,
                                          !.execution_time = elapsed]}}
        finish(a) ==
            IF a.exc # NoExc THEN {failed(a)}
            ELSE UNION {IF confidence.kind = "raise" THEN {failed(a)}
                        ELSE logged(a, confidence.value) :
                           confidence \in {calculate_correction_confidence(a.info)}}
    IN  UNION {finish(a4) :
                  a4 \in UNION {strategy4(a3) :
                                   a3 \in UNION {strategy3(a2) :
                                                    a2 \in UNION {strategy2(a1) :
                                                                     a1 \in strategy1(start)}}}}

(***************************************************************************)
(* Inputs of the model.                                                    *)
(***************************************************************************)
SeqsUpTo(S, n) == UNION {[1..k -> S] : k \in 0..n}

NotCalled == [kind |-> "none", value |-> None]

NoIntent  == [tables |-> <<>>, table |-> None, column |-> None, columns |-> <<>>,
              aggregation |-> None,
              where_column |-> None, where_operator |-> None, where_value |-> None]

\* the catalogs of the spec's scenarios; STUDENT and DEPARTMENT share DEPT_CODE
CatalogA == << [name |-> tSTUDENT, cols |-> <<cSTU_FNAME, cSTU_GPA>>] >>
Catalog2 == << [name |-> tSTUDENT,    cols |-> <<cSTU_GPA, cDEPT_CODE>>],
               [name |-> tDEPARTMENT, cols |-> <<cDEPT_CODE, cDEPT_NAME>>] >>
Catalog3 == Catalog2 \o << [name |-> tCOURSE, cols |-> <<cCRS_CODE, cDEPT_CODE>>] >>
CatalogLower == << [name |-> tstudents, cols |-> <<cname>>] >>

vCIS  == <<"'", "C", "I", "S", "'">>
rawCIS == <<"C", "I", "S">>
opEQ  == <<"=">>

TableNames  == {tSTUDENT, tDEPARTMENT, tCOURSE}
ColumnNames == {cSTU_GPA, cAGE}

Filters ==
    { [c |-> None, o |-> None, v |-> None],
      [c |-> cSTU_GPA, o |-> opEQ, v |-> vCIS],
      [c |-> cAGE, o |-> opEQ, v |-> vCIS],
      [c |-> cSTU_GPA, o |-> None, v |-> vCIS],
      [c |-> cAGE, o |-> opEQ, v |-> None] }

Intents ==
    { [tables |-> ts, table |-> t, columns |-> cs, aggregation |-> a,
       column |-> IF Len(cs) = 1 THEN cs[1] ELSE None,
       where_column |-> f.c, where_operator |-> f.o, where_value |-> f.v] :
        ts \in SeqsUpTo(TableNames, MaxTables), t \in {None, tSTUDENT, tDEPARTMENT, tCOURSE},
        cs \in SeqsUpTo(ColumnNames, MaxCols), a \in {None, kwCOUNT}, f \in Filters }

relCode == [from_table |-> tSTUDENT, from_column |-> cDEPT_CODE, to_table |-> tDEPARTMENT, to_column |-> cDEPT_CODE]
relName == [from_table |-> tDEPARTMENT, from_column |-> cDEPT_NAME, to_table |-> tSTUDENT, to_column |-> cSTU_GPA]

RelLists == SeqsUpTo({relCode, relName}, MaxRels)

Conns ==
    { ConnNone,
      [isNone |-> FALSE, rows |-> {}],
      [isNone |-> FALSE, rows |-> {<<tDEPARTMENT, cDEPT_CODE, rawCIS>>}] }

(***************************************************************************)
(* SpecPlanner: one call of generate_sql on arbitrary arguments.           *)
(***************************************************************************)
InitPlanner ==
    /\ pc = "generate"
    /\ schema = Catalog2
    /\ relations \in RelLists
    /\ intent \in {i \in Intents : i.tables = <<>> \/ i.table =
                       (IF Len(i.tables) = 1 THEN i.tables[1] ELSE None)}
    /\ conn \in Conns
    /\ sql = None
    /\ plan = NotCalled
    /\ verdict = NotCalled
    /\ response = NotCalled
    /\ executed = <<>>
    /\ variant = "none"
    /\ user_input = <<>>
    /\ exec_error = NoExc
    /\ reflex = EnhancedReflexAgent
    /\ call = NotCalled
    /\ now = 0

CallGenerate ==
    /\ pc = "generate"
    /\ plan' = generate_sql(intent, schema, relations, conn)
    /\ sql' = IF plan'.kind = "return" THEN plan'.value ELSE None
    /\ pc' = "done"
    /\ UNCHANGED <<schema, relations, intent, conn, verdict, response, executed,
                   variant, user_input, exec_error,
                   reflex, call, now>>

NextPlanner == CallGenerate

SpecPlanner == InitPlanner /\ [][NextPlanner]_vars

(***************************************************************************)
(* SpecValidate: one call of validate_sql on an arbitrary text.            *)
(* A text is up to MaxChunks pieces joined by single spaces.               *)
(***************************************************************************)
Chunks ==
    { kwSELECT \o SP \o <<"*">>,
      kwSELECT \o SP \o cSTU_GPA,
      kwSELECT \o SP \o cAGE,
      kwSELECT \o SP \o kwCOUNT \o <<"(">> \o cSTU_GPA \o <<")">>,
      kwSELECT \o SP \o tSTUDENT \o <<".">> \o cSTU_GPA \o <<",", " ">> \o cDEPT_CODE,
      kwSELECT \o SP \o cname,
      kwFROM \o SP \o tSTUDENT,
      kwFROM \o SP \o tCOURSE,
      kwFROM \o SP \o tstudents,
      kwJOIN \o SP \o tDEPARTMENT \o SP \o kwON \o SP \o tSTUDENT \o <<".">> \o cDEPT_CODE
             \o <<" ", "=", " ">> \o tDEPARTMENT \o <<".">> \o cDEPT_CODE,
      kwWHERE \o SP \o cAGE \o <<" ", ">", " ", "3">>,
      <<";">>,
      kwDROP \o SP \o tSTUDENT \o <<";">> }

Texts == {join(SP, cs) : cs \in SeqsUpTo(Chunks, MaxChunks)}

InitValidate ==
    /\ pc = "validate"
    /\ schema \in {Catalog2, CatalogLower}
    /\ sql \in Texts \cup {None}
    /\ relations = <<>>
    /\ intent = NoIntent
    /\ conn = ConnNone
    /\ plan = NotCalled
    /\ verdict = NotCalled
    /\ response = NotCalled
    /\ executed = <<>>
    /\ variant = "none"
    /\ user_input = <<>>
    /\ exec_error = NoExc
    /\ reflex = EnhancedReflexAgent
    /\ call = NotCalled
    /\ now = 0

CallValidate ==
    /\ pc = "validate"
    /\ verdict' = validate_sql(sql, [tables |-> schema])
    /\ pc' = "done"
    /\ UNCHANGED <<schema, relations, intent, conn, sql, plan, response, executed,
                   variant, user_input, exec_error,
                   reflex, call, now>>

NextValidate == CallValidate

SpecValidate == InitValidate /\ [][NextValidate]_vars

(***************************************************************************)
(* SpecPipeline: one request through handle_query, of core/orchestrator.py *)
(* (variant "basic") or of core/enhanced_orchestrator.py called with its   *)
(* default user_id = None (variant "enhanced").  A question is up to       *)
(* MaxPhrases phrases joined by single spaces; the commands describe,      *)
(* import and load are not among them.                                     *)
(***************************************************************************)
\* words of the questions
word ==
    [ show |-> <<"s", "h", "o", "w">>,
      from |-> <<"f", "r", "o", "m">>,
      where |-> <<"w", "h", "e", "r", "e">>,
      tables |-> <<"t", "a", "b", "l", "e", "s">>,
      CIS |-> <<"C", "I", "S">> ]

\* "show tables"
w_show_tables == word.show \o SP \o word.tables

Phrases ==
    { w_show_tables,
      word.show \o SP \o cSTU_FNAME \o SP \o word.from,
      kw.count,
      tSTUDENT,
      tDEPARTMENT,
      tCOURSE,
      word.where \o SP \o cSTU_GPA \o <<" ", ">", " ", "3">>,
      word.where \o SP \o cDEPT_NAME \o <<" ", "=", " ">> \o word.CIS }

Questions == {join(SP, ps) : ps \in SeqsUpTo(Phrases, MaxPhrases)}

relCourse == [from_table |-> tCOURSE, from_column |-> cDEPT_CODE,
              to_table |-> tDEPARTMENT, to_column |-> cDEPT_CODE]

\* a database: what read_schema reports of it and what the probe finds in it
Databases ==
    { [schema |-> CatalogA, relations |-> <<>>, rows |-> {}],
      [schema |-> Catalog3, relations |-> <<relCode, relCourse>>,
       rows |-> {<<tSTUDENT, cDEPT_CODE, rawCIS>>, <<tDEPARTMENT, cDEPT_CODE, rawCIS>>}],
      [schema |-> CatalogLower, relations |-> <<>>, rows |-> {}] }


\* the dict handle_query returns; explanation is the f-string prefix followed
\* by str(e) of the exception e; confidence is in hundredths
Response(s, result, prefix, e, confidence) ==
    [kind |-> "returned", sql |-> s, result |-> result,
     explanation |-> [prefix |-> prefix, e |-> e], confidence |-> confidence]

\* a plausible slip: the handler drops the exception's text
Rejected_without_reason(v, e) ==
    IF v = "basic" /\ e.kind = "SQLSafetyError"
    THEN Response(None, "None", "Query rejected by safety layer: ", NoExc, 0)
    ELSE Response(None, "None", "System error: ", NoExc, 0)

\* except SQLSafetyError / except Exception of the two handle_query
Rejected(v, e) ==
    IF v = "basic" /\ e.kind = "SQLSafetyError"
    THEN Response(None, "None", "Query rejected by safety layer: ", e, 0)
    ELSE Response(None, "None", "System error: ", e, 0)

\* a plausible slip: the hard block after planning is missing
planner_failed_unchecked(v, value) == FALSE

\* "if sql is None or "None" in str(sql)" / "if sql is None"
planner_failed(v, value) ==
    value = None \/ (v = "basic" /\ Contains(value, kwNone))

InitPipeline ==
    /\ pc = "start"
    /\ \E db \in Databases :
          /\ schema = db.schema
          /\ relations = db.relations
          /\ conn = [isNone |-> FALSE, rows |-> db.rows]
    /\ user_input \in Questions
    /\ variant \in {"basic", "enhanced"}
    /\ intent = NoIntent
    /\ sql = None
    /\ plan = NotCalled
    /\ verdict = NotCalled
    /\ response = NotCalled
    /\ executed = <<>>
    /\ exec_error = NoExc
    /\ reflex = EnhancedReflexAgent
    /\ call = NotCalled
    /\ now = 0

\* "show tables"
ShowTables ==
    /\ pc = "start"
    /\ lower(strip(user_input)) = w_show_tables
    /\ response' = Response(None, "tables", "Listed all tables", NoExc, 100)
    /\ pc' = "done"
    /\ UNCHANGED <<schema, relations, intent, conn, sql, plan, verdict, executed,
                   variant, user_input, exec_error,
                   reflex, call, now>>

\* self.nlu.parse(user_input, schema): the intents a run of the orchestrator's
\* parser can return
nlu_parse(v, text, sch) ==
    IF v = "basic" THEN {parse(text, sch)} ELSE enhanced_parse(text, sch)

\* the conn argument the orchestrator gives to generate_sql
planner_conn(v, cn) == IF v = "basic" THEN cn ELSE ConnNone

\* steps 1-2: read the schema and parse the question
Understand ==
    /\ pc = "start"
    /\ lower(strip(user_input)) # w_show_tables
    /\ intent' \in nlu_parse(variant, user_input, schema)
    /\ pc' = "plan"
    /\ UNCHANGED <<schema, relations, conn, sql, plan, verdict, response, executed,
                   variant, user_input, exec_error,
                   reflex, call, now>>

\* step 3: plan the SQL, and the hard blocks that follow it
Plan ==
    /\ pc = "plan"
    /\ plan' = generate_sql(intent, schema, relations, planner_conn(variant, conn))
    /\ LET failed == Exc("SQLSafetyError", "Planner failed to produce valid SQL", <<>>)
           only   == Exc("SQLSafetyError", "Only SELECT queries are allowed", <<>>)
           attr   == Exc("AttributeError", "'NoneType' object has no attribute 'cursor'", <<>>)
       IN  IF plan'.kind = "raise"
           THEN /\ response' = Rejected(variant, attr)
                /\ sql' = sql
                /\ pc' = "done"
           ELSE IF planner_failed(variant, plan'.value)
           THEN /\ response' = Rejected(variant, failed)
                /\ sql' = plan'.value
                /\ pc' = "done"
           ELSE IF variant = "basic"
                   /\ ~OccursAt(upper(strip(plan'.value)), kwSELECT, 1)
           THEN /\ response' = Rejected(variant, only)
                /\ sql' = plan'.value
                /\ pc' = "done"
           ELSE /\ response' = response
                /\ sql' = plan'.value
                /\ pc' = "validate"
    /\ UNCHANGED <<schema, relations, intent, conn, verdict, executed, variant,
                   user_input, exec_error,
                   reflex, call, now>>

\* the safety validation
Validate ==
    /\ pc = "validate"
    /\ verdict' = validate_sql(sql, [tables |-> schema])
    /\ IF verdict'.kind = "ok"
       THEN /\ pc' = IF variant = "basic" THEN "execute" ELSE "optimize"
            /\ response' = response
       ELSE /\ pc' = "done"
            /\ response' = Rejected(variant, verdict')
    /\ UNCHANGED <<schema, relations, intent, conn, sql, plan, executed, variant,
                   user_input, exec_error,
                   reflex, call, now>>

\* enhanced step 6
Optimize ==
    /\ pc = "optimize"
    /\ sql' = optimize_query_execution(sql)
    /\ pc' = "execute"
    /\ UNCHANGED <<schema, relations, intent, conn, plan, verdict, response, executed,
                   variant, user_input, exec_error,
                   reflex, call, now>>

DbError == Exc("OperationalError", "database error", <<>>)

\* the execution collaborator runs the text and succeeds or fails
Execute ==
    /\ pc = "execute"
    /\ executed' = Append(executed, sql)
    /\ \E ok \in BOOLEAN :
          /\ exec_error' = IF ok THEN exec_error ELSE DbError
          /\ IF variant = "basic"
             THEN /\ response' = Response(sql, IF ok THEN "(True, rows)" ELSE "(False, error)",
                                          "Query executed successfully.", NoExc, 100)
                  /\ pc' = "done"
             ELSE IF ok
             THEN /\ response' = response
                  /\ pc' = "analyze"
             ELSE /\ response' = Rejected(variant, DbError)
                  /\ pc' = "done"
    /\ UNCHANGED <<schema, relations, intent, conn, sql, plan, verdict, variant,
                   user_input, reflex, call, now>>

\* enhanced step 8: analyze_query_performance runs the text once more
Analyze ==
    /\ pc = "analyze"
    /\ executed' = Append(executed, sql)
    /\ \E ok \in BOOLEAN :
          /\ exec_error' = IF ok THEN exec_error ELSE DbError
          /\ IF ok
             THEN /\ response' = response
                  /\ pc' = "explain"
             ELSE /\ response' = Rejected(variant, DbError)
                  /\ pc' = "done"
    /\ UNCHANGED <<schema, relations, intent, conn, sql, plan, verdict, variant,
                   user_input, reflex, call, now>>

\* enhanced step 9 reads the local execution_time, which is never assigned
Explain ==
    /\ pc = "explain"
    /\ response' = Rejected(variant,
                       Exc("NameError", "name 'execution_time' is not defined", <<>>))
    /\ pc' = "done"
    /\ UNCHANGED <<schema, relations, intent, conn, sql, plan, verdict, executed,
                   variant, user_input, exec_error,
                   reflex, call, now>>

NextPipeline ==
    \/ ShowTables
    \/ Understand
    \/ Plan
    \/ Validate
    \/ Optimize
    \/ Execute
    \/ Analyze
    \/ Explain

SpecPipeline == InitPipeline /\ [][NextPipeline]_vars

(***************************************************************************)
(* SpecReflex: up to MaxCalls calls of correct_query on one                *)
(* EnhancedReflexAgent, between them enable_learning and                   *)
(* clear_correction_history.  SpecHistory is an agent whose history the    *)
(* calls before have filled up to the capacity, or to less than MaxCalls   *)
(* records below it.                                                       *)
(***************************************************************************)
\* a catalog with lower-case names: {"student": ["student_id", "marks"]}
CatalogSchool == << [name |-> <<"s", "t", "u", "d", "e", "n", "t">>, cols |-> <<<<"s", "t", "u", "d", "e", "n", "t", "_", "i", "d">>, <<"m", "a", "r", "k", "s">>>>] >>

\* a SELECT list without its comma, and what executing it reports
MissingComma ==
    [sql |-> <<"S", "E", "L", "E", "C", "T", " ", "S", "T", "U", "_", "F", "N", "A", "M", "E", " ", "S", "T", "U", "_", "G", "P", "A", " ", "F", "R", "O", "M", " ", "S", "T", "U", "D", "E", "N", "T">>,
     error_message |-> <<"n", "e", "a", "r", " ", "\"", "S", "T", "U", "_", "G", "P", "A", "\"", ":", " ", "s", "y", "n", "t", "a", "x", " ", "e", "r", "r", "o", "r">>]

\* a query that names only catalog members, and a timeout
Timeout ==
    [sql |-> <<"S", "E", "L", "E", "C", "T", " ", "S", "T", "U", "_", "F", "N", "A", "M", "E", " ", "F", "R", "O", "M", " ", "S", "T", "U", "D", "E", "N", "T">>,
     error_message |-> <<"t", "i", "m", "e", "o", "u", "t">>]

\* the failed queries handed to correct_query, each with the error message of
\* its execution
Repairs ==
    { MissingComma,
      [sql |-> <<"S", "E", "L", "E", "C", "T", " ", "S", "T", "U", "_", "F", "N", "A", "M", "E", " ", "F", "R", "O", "M", " ", "S", "T", "U", "D", "E", "N", "T">>,
       error_message |-> <<"n", "e", "a", "r", " ", "\"", "S", "T", "U", "_", "G", "P", "A", "\"", ":", " ", "s", "y", "n", "t", "a", "x", " ", "e", "r", "r", "o", "r">>],
      Timeout,
      [sql |-> <<"S", "E", "L", "E", "C", "T", " ", "m", "a", "r", "k", "s", " ", "F", "R", "O", "M", " ", "s", "t", "u", "d", "e", "n", "t">>,
       error_message |-> <<"t", "i", "m", "e", "o", "u", "t">>],
      [sql |-> <<"S", "E", "L", "E", "C", "T", " ", "g", "r", "a", "d", "e", " ", "F", "R", "O", "M", " ", "s", "t", "u", "d", "e", "n", "t">>,
       error_message |-> <<"n", "o", " ", "s", "u", "c", "h", " ", "c", "o", "l", "u", "m", "n", ":", " ", "g", "r", "a", "d", "e">>],
      [sql |-> <<"S", "E", "L", "E", "C", "T", " ", "S", "T", "U", "_", "F", "N", "A", "M", "E", " ", "F", "R", "O", "M", " ", "S", "T", "U", "D", "E", "N", "T", " ", "W", "H", "E", "R", "E", " ", "S", "T", "U", "_", "F", "N", "A", "M", "E", " ", "=", " ", "A", "n", "n">>,
       error_message |-> <<"u", "n", "r", "e", "c", "o", "g", "n", "i", "z", "e", "d", " ", "t", "o", "k", "e", "n", ":", " ", "A", "n", "n">>],
      [sql |-> <<"S", "E", "L", "E", "C", "T", " ", "S", "T", "U", "_", "G", "P", "A", " ", "F", "R", "O", "M", " ", "S", "T", "U", "D", "E", "N", "T", " ", "J", "O", "I", "N", " ", "S", "T", "U", "D", "E", "N", "T", " ", "W", "H", "E", "R", "E", " ", "S", "T", "U", "_", "G", "P", "A", " ", "=", " ", "3">>,
       error_message |-> <<"a", "m", "b", "i", "g", "u", "o", "u", "s", " ", "c", "o", "l", "u", "m", "n", " ", "n", "a", "m", "e", ":", " ", "S", "T", "U", "_", "G", "P", "A">>] }

\* the two of them that the agent near its capacity is given
FewRepairs == {MissingComma, Timeout}

\* the time a call takes, in milliseconds
Elapsed == {5, 1500}

\* the agent after n calls correct_query(sql, error_message, CatalogA), the
\* last of them at time 0
AfterCalls(n, repair) ==
    CHOOSE agent \in
        {[once.agent EXCEPT
             !.correction_history =
                 SubSeq([i \in 1..n |-> [@[1] EXCEPT !.timestamp = i - n]], 1, n),
             !.success_patterns   = [p \in DOMAIN @ |-> n * @[p]],
             !.error_patterns     = [p \in DOMAIN @ |-> n * @[p]]] :
            once \in correct_query(EnhancedReflexAgent, repair.sql, repair.error_message,
                                   CatalogA, 0, Min(Elapsed))} : TRUE

InitAgent(catalogs, agents) ==
    /\ pc = "reflex"
    /\ schema \in catalogs
    /\ reflex \in agents
    /\ call = NotCalled
    /\ now = 0
    /\ sql = None
    /\ relations = <<>>
    /\ intent = NoIntent
    /\ conn = ConnNone
    /\ plan = NotCalled
    /\ verdict = NotCalled
    /\ response = NotCalled
    /\ executed = <<>>
    /\ variant = "none"
    /\ user_input = <<>>
    /\ exec_error = NoExc

InitReflex == InitAgent({CatalogA, CatalogSchool}, {EnhancedReflexAgent})

InitHistory ==
    InitAgent({CatalogA},
              {AfterCalls(n, MissingComma) :
                  n \in (HistoryCapacity - MaxCalls + 1)..HistoryCapacity})

\* one call correct_query(repair.sql, repair.error_message, schema)
Call(repairs) ==
    /\ pc = "reflex"
    /\ now < MaxCalls
    /\ \E repair \in repairs, elapsed \in Elapsed :
          \E out \in correct_query(reflex, repair.sql, repair.error_message, schema,
                                   now + 1, elapsed) :
              /\ call' = [kind |-> "correct_query", sql |-> repair.sql,
                          error_message |-> repair.error_message,
                          learning_enabled |-> reflex.learning_enabled,
                          elapsed |-> elapsed,
                          corrected_sql |-> out.corrected_sql,
                          correction_info |-> out.info,
                          tried |-> out.tried]
              /\ reflex' = out.agent
    /\ now' = now + 1
    /\ UNCHANGED <<pc, schema, relations, intent, conn, sql, plan, verdict, response,
                   executed, variant, user_input, exec_error>>

\* enable_learning(enabled)
EnableLearning ==
    /\ pc = "reflex"
    /\ \E enabled \in BOOLEAN : reflex' = [reflex EXCEPT !.learning_enabled = enabled]
    /\ UNCHANGED <<pc, schema, relations, intent, conn, sql, plan, verdict, response,
                   executed, variant, user_input, exec_error, call, now>>

\* clear_correction_history()
ClearCorrectionHistory ==
    /\ pc = "reflex"
    /\ reflex' = [reflex EXCEPT !.correction_history = <<>>,
                                !.error_patterns = [p \in {} |-> 0],
                                !.success_patterns = [p \in {} |-> 0]]
    /\ UNCHANGED <<pc, schema, relations, intent, conn, sql, plan, verdict, response,
                   executed, variant, user_input, exec_error, call, now>>

CorrectQuery == Call(Repairs)

NextReflex == CorrectQuery \/ EnableLearning \/ ClearCorrectionHistory

SpecReflex == InitReflex /\ [][NextReflex]_vars

CorrectQueryNearCapacity == Call(FewRepairs)

NextHistory == CorrectQueryNearCapacity \/ EnableLearning

SpecHistory == InitHistory /\ [][NextHistory]_vars

(***************************************************************************)
(* SpecShared: MaxCalls threads, each in one correct_query call on the     *)
(* same EnhancedReflexAgent.  The agent has no lock, so the threads        *)
(* interleave between the statements that read and write the history and   *)
(* the counters; call[w] is the position and the locals of thread w.       *)
(***************************************************************************)
Workers == 1..MaxCalls

InitShared ==
    /\ pc = "shared"
    /\ schema = CatalogA
    /\ reflex = EnhancedReflexAgent
    /\ call = [w \in Workers |-> NotCalled]
    /\ now = 0
    /\ sql = None
    /\ relations = <<>>
    /\ intent = NoIntent
    /\ conn = ConnNone
    /\ plan = NotCalled
    /\ verdict = NotCalled
    /\ response = NotCalled
    /\ executed = <<>>
    /\ variant = "none"
    /\ user_input = <<>>
    /\ exec_error = NoExc

\* lines 69 to 117 of correct_query, or to its return in the except branch:
\* the strategies, among them the lookup of _learning_based_correction in
\* the history as it is now, and the confidence
Strategies(w) ==
    /\ pc = "shared"
    /\ call[w].kind = "none"
    /\ \E repair \in FewRepairs, elapsed \in Elapsed :
          \E out \in correct_query(reflex, repair.sql, repair.error_message, schema,
                                   now, elapsed) :
              call' = [call EXCEPT ![w] =
                          [kind |-> "correct_query",
                           at   |-> IF out.info.strategy = rx.failed THEN "returned"
                                    ELSE "append",
                           sql |-> repair.sql, error_message |-> repair.error_message,
                           corrected_sql |-> out.corrected_sql,
                           correction_info |-> out.info,
                           seen |-> Len(reflex.correction_history),
                           position |-> 0, loaded |-> 0]]
    /\ UNCHANGED <<pc, schema, relations, intent, conn, sql, plan, verdict, response,
                   executed, variant, user_input, exec_error, reflex, now>>

\* _log_correction, lines 465 to 476: log_entry and the append
LogAppend(w) ==
    /\ pc = "shared"
    /\ call[w].kind = "correct_query" /\ call[w].at = "append"
    /\ now' = now + 1
    /\ reflex' = [reflex EXCEPT !.correction_history =
                                    Append(@, log_entry(call[w].correction_info, now'))]
    /\ call' = [call EXCEPT ![w].at = "load",
                            ![w].position = Len(reflex.correction_history) + 1]
    /\ UNCHANGED <<pc, schema, relations, intent, conn, sql, plan, verdict, response,
                   executed, variant, user_input, exec_error>>

\* the counter that lines 480 to 483 choose for the call
counter_of(correction_info) ==
    IF correction_info.corrected_sql # correction_info.original_sql
    THEN "success_patterns" ELSE "error_patterns"

\* patterns[error_pattern] += 1, its first half: the value is read (a
\* defaultdict(int) gives 0 for a missing key)
LoadCounter(w) ==
    /\ pc = "shared"
    /\ call[w].kind = "correct_query" /\ call[w].at = "load"
    /\ \E error_pattern \in {extract_error_pattern(call[w].correction_info.error_message)},
          patterns \in {reflex[counter_of(call[w].correction_info)]} :
          call' = [call EXCEPT ![w].at = "store",
                               ![w].loaded = IF error_pattern \in DOMAIN patterns
                                             THEN patterns[error_pattern] ELSE 0]
    /\ UNCHANGED <<pc, schema, relations, intent, conn, sql, plan, verdict, response,
                   executed, variant, user_input, exec_error, reflex, now>>

\* patterns[error_pattern] += 1, its second half: the value read, plus 1, is
\* stored
StoreCounter(w) ==
    /\ pc = "shared"
    /\ call[w].kind = "correct_query" /\ call[w].at = "store"
    /\ \E error_pattern \in {extract_error_pattern(call[w].correction_info.error_message)} :
          reflex' = [reflex EXCEPT ![counter_of(call[w].correction_info)] =
                        [p \in DOMAIN @ \cup {error_pattern} |->
                            IF p = error_pattern THEN call[w].loaded + 1 ELSE @[p]]]
    /\ call' = [call EXCEPT ![w].at = "truncate"]
    /\ UNCHANGED <<pc, schema, relations, intent, conn, sql, plan, verdict, response,
                   executed, variant, user_input, exec_error, now>>

\* lines 485 and 486, and the return of correct_query
Truncate(w) ==
    /\ pc = "shared"
    /\ call[w].kind = "correct_query" /\ call[w].at = "truncate"
    /\ reflex' = [reflex EXCEPT !.correction_history =
                      IF Len(@) > HistoryCapacity
                      THEN SubSeq(@, Len(@) - HistoryCapacity + 1, Len(@)) ELSE @]
    /\ call' = [call EXCEPT ![w].at = "returned"]
    /\ UNCHANGED <<pc, schema, relations, intent, conn, sql, plan, verdict, response,
                   executed, variant, user_input, exec_error, now>>

NextShared ==
    \E w \in Workers :
        \/ Strategies(w)
        \/ LogAppend(w)
        \/ LoadCounter(w)
        \/ StoreCounter(w)
        \/ Truncate(w)

SpecShared == InitShared /\ [][NextShared]_vars

(***************************************************************************)
(* SpecParse: one call parse(user_input, schema) of NLUAgent (variant      *)
(* "basic") or EnhancedNLUAgent (variant "enhanced") on a question of up   *)
(* to MaxPhrases phrases that name tables, columns, aggregations and       *)
(* filters, with the operator written as a symbol or as text.              *)
(***************************************************************************)
ParsePhrases ==
    { tSTUDENT,
      tDEPARTMENT,
      kw.count,
      kw_enhanced.sum,
      kw.max,
      cDEPT_CODE,
      cSTU_GPA \o <<" ", ">", " ", "3">>,
      cDEPT_NAME \o <<" ", "=", " ">> \o word.CIS,
      cDEPT_NAME \o SP \o kw.equal_to \o SP \o word.CIS,
      cAGE \o SP \o kw.greater_than \o <<" ", "3">> }

ParseQuestions == {join(SP, ps) : ps \in SeqsUpTo(ParsePhrases, MaxPhrases)}

InitParse ==
    /\ pc = "question"
    /\ schema = Catalog2
    /\ user_input \in ParseQuestions
    /\ variant \in {"basic", "enhanced"}
    /\ intent = NoIntent
    /\ relations = <<>>
    /\ conn = ConnNone
    /\ sql = None
    /\ plan = NotCalled
    /\ verdict = NotCalled
    /\ response = NotCalled
    /\ executed = <<>>
    /\ exec_error = NoExc
    /\ reflex = EnhancedReflexAgent
    /\ call = NotCalled
    /\ now = 0

\* parse(user_input, schema)
CallParse ==
    /\ pc = "question"
    /\ intent' \in nlu_parse(variant, user_input, schema)
    /\ pc' = "parsed"
    /\ UNCHANGED <<schema, relations, conn, sql, plan, verdict, response, executed,
                   variant, user_input, exec_error, reflex, call, now>>

NextParse == CallParse

SpecParse == InitParse /\ [][NextParse]_vars

(***************************************************************************)
(* SpecSimilarity: one call of _calculate_similarity on two lower-case     *)
(* names of up to MaxNameLen characters.                                   *)
(***************************************************************************)
Names == SeqsUpTo({"a", "b"}, MaxNameLen)

InitSimilarity ==
    /\ pc = "names"
    /\ \E str1 \in Names, str2 \in Names :
          call = [kind |-> "arguments", str1 |-> str1, str2 |-> str2]
    /\ schema = <<>>
    /\ user_input = <<>>
    /\ variant = "none"
    /\ intent = NoIntent
    /\ relations = <<>>
    /\ conn = ConnNone
    /\ sql = None
    /\ plan = NotCalled
    /\ verdict = NotCalled
    /\ response = NotCalled
    /\ executed = <<>>
    /\ exec_error = NoExc
    /\ reflex = EnhancedReflexAgent
    /\ now = 0

\* self._calculate_similarity(str1, str2)
CallSimilarity ==
    /\ pc = "names"
    /\ call' = [kind |-> "_calculate_similarity", str1 |-> call.str1, str2 |-> call.str2,
                similarity |-> calculate_similarity(call.str1, call.str2)]
    /\ pc' = "compared"
    /\ UNCHANGED <<schema, relations, intent, conn, sql, plan, verdict, response,
                   executed, variant, user_input, exec_error, reflex, now>>

NextSimilarity == CallSimilarity

SpecSimilarity == InitSimilarity /\ [][NextSimilarity]_vars

(***************************************************************************)
(* Properties.                                                             *)
(***************************************************************************)
EndsWith(s, suffix) ==
    Len(suffix) <= Len(s) /\ SubSeq(s, Len(s) - Len(suffix) + 1, Len(s)) = suffix

\* C1 (SpecValidate): validate_sql raises SQLSafetyError for every non-null
\* text that contains the character ';', whatever else the text contains and
\* whatever catalog is supplied.
C1_SemicolonAlwaysRejected ==
    (pc = "done" /\ sql # None /\ Contains(sql, <<";">>))
        => verdict.kind = "SQLSafetyError"

\* a text that is rejected for its ';' alone: without it the text is accepted
C1_Witness ==
    /\ pc = "done"
    /\ sql # None
    /\ Contains(sql, <<";">>)
    /\ verdict = SQLSafetyError("Multiple statements blocked", <<>>)
    /\ validate_sql(replace(sql, <<";">>, <<>>), [tables |-> schema]).kind = "ok"

\* C2 (SpecPipeline): once validate_sql has rejected the request's SQL the
\* execution collaborator is never called; the request has ended with
\* sql = None, confidence 0 and an explanation that carries the validator's
\* reason.
C2_RejectedNeverExecuted ==
    verdict.kind = "SQLSafetyError" =>
        /\ executed = <<>>
        /\ pc = "done"
        /\ response.kind = "returned"
        /\ response.sql = None
        /\ response.confidence = 0
        /\ response.explanation.e.msg = verdict.msg
        /\ response.explanation.e.arg = verdict.arg

\* the planner produced a text and the validator rejected it
C2_Witness ==
    /\ pc = "done"
    /\ plan.kind = "return"
    /\ plan.value # None
    /\ verdict.kind = "SQLSafetyError"
    /\ verdict.msg = "Illegal table used: "

\* the column a token names: the part after a table qualifier
Unqualified(tok) ==
    IF Contains(tok, <<".">>) THEN split(tok, <<".">>)[2] ELSE tok

\* C3 (SpecValidate), as claimed: in every text that validate_sql accepts,
\* each name following FROM or JOIN is a catalog table and each column named
\* in the projection or in the WHERE clause is a column of some catalog table
\* (names compared without regard to case).
C3_AcceptedIdentifiersInCatalog ==
    (pc = "done" /\ verdict.kind = "ok") =>
        LET tokens == re_split_ws(sql)
            table_names ==
                {replace(tokens[i + 1], <<",">>, <<>>) :
                    i \in {k \in 1..(Len(tokens) - 1) : upper(tokens[k]) \in {kwFROM, kwJOIN}}}
            where_columns ==
                {Unqualified(tokens[i + 1]) :
                    i \in {k \in 1..(Len(tokens) - 1) : upper(tokens[k]) = kwWHERE}}
            projection == Range(extract_columns(sql)) \ {<<"*">>, <<>>}
            catalog_tables  == {upper(t) : t \in SchemaKeys(schema)}
            catalog_columns == UNION {{upper(c) : c \in Range(schema[i].cols)} :
                                        i \in 1..Len(schema)}
        IN  /\ \A t \in table_names : upper(t) \in catalog_tables
            /\ \A c \in projection : upper(c) \in catalog_columns
            /\ \A c \in where_columns : upper(c) \in catalog_columns

\* C4 (SpecPlanner), as claimed: generate_sql returns None for every intent
\* whose tables list has more than two entries.
C4_MoreThanTwoTablesNull ==
    (pc = "done" /\ Len(intent.tables) > 2) => plan = Return(None)

\* the three conditions of C5, stated on the arguments of the call
C5_Resolved ==
    LET referenced == IF intent.tables # <<>> THEN Range(intent.tables) ELSE {intent.table}
        catalog    == [t \in SchemaKeys(schema) |-> Range(SchemaGet(schema, t))]
    IN  /\ intent.tables # <<>> \/ Truthy(intent.table)
        /\ referenced \subseteq DOMAIN catalog
        /\ \A c \in Range(intent.columns) : \E t \in referenced : c \in catalog[t]

\* C5 (SpecPlanner): generate_sql returns an SQL text only if a table is
\* resolved, every referenced table is a key of the catalog and every listed
\* column belongs to a referenced table; if one of these fails it returns None.
C5_NullUnlessResolved ==
    pc = "done" =>
        /\ (plan.kind = "return" /\ plan.value # None) => C5_Resolved
        /\ ~C5_Resolved => plan = Return(None)

\* a listed column that the catalog knows, but not in a referenced table
C5_Witness ==
    /\ pc = "done"
    /\ intent.tables = <<tDEPARTMENT>>
    /\ intent.columns = <<cSTU_GPA>>
    /\ ~C5_Resolved
    /\ plan = Return(None)

\* the relations of the list that connect t1 and t2, in either direction
Connecting(rels, t1, t2) ==
    {r \in Range(rels) : \/ r.from_table = t1 /\ r.to_table = t2
                         \/ r.from_table = t2 /\ r.to_table = t1}

OnCondition(r) ==
    SP \o kwON \o SP \o r.from_table \o <<".">> \o r.from_column \o <<" ", "=", " ">>
       \o r.to_table \o <<".">> \o r.to_column

\* C6 (SpecPlanner), as claimed: for two tables generate_sql returns SQL only
\* when exactly one relation connects them, with that relation as the ON
\* condition; with no connecting relation, or more than one, it returns None.
C6_ExactlyOneRelation ==
    (pc = "done" /\ Len(intent.tables) = 2 /\ plan.kind = "return") =>
        LET c == Connecting(relations, intent.tables[1], intent.tables[2])
        IN  IF Cardinality(c) = 1
            THEN plan.value # None =>
                    Contains(plan.value, OnCondition(CHOOSE r \in c : TRUE))
            ELSE plan.value = None

\* C7 (SpecPlanner), as claimed: generate_sql never raises; it returns an
\* SQL text or None, also when conn is None and the filter column is not
\* among the referenced tables' columns.
C7_NeverRaises ==
    pc = "done" => plan.kind = "return"

\* C8 (SpecPlanner), as claimed: when the filter column is not a column of a
\* referenced table, the filter is bound to the first (table, column) pair,
\* in order, for which the probe is positive: the WHERE names that column,
\* qualified in a two-table query by that pair's table; with no positive
\* pair the result is None.
C8_FilterBoundToFirstProbeHit ==
    (/\ pc = "done"
     /\ plan.kind = "return"
     /\ C5_Resolved
     /\ Truthy(intent.where_column)
     /\ \A t \in Range(referenced_tables(intent)) :
            intent.where_column \notin Range(SchemaGet(schema, t))) =>
        LET pairs == ProbePairs(referenced_tables(intent), schema)
            raw   == strip_quotes(IF Truthy(intent.where_value)
                                  THEN intent.where_value ELSE <<>>)
            hits  == {i \in 1..Len(pairs) : <<pairs[i][1], pairs[i][2], raw>> \in conn.rows}
            first == pairs[Min(hits)]
            bound == IF Len(referenced_tables(intent)) = 2
                     THEN first[1] \o <<".">> \o first[2] ELSE first[2]
        IN  IF hits = {} THEN plan.value = None
            ELSE (/\ plan.value # None
                  /\ Truthy(intent.where_operator)
                  /\ Truthy(intent.where_value)) =>
                     EndsWith(plan.value, kwWHERE \o SP \o bound \o SP
                                \o intent.where_operator \o SP \o intent.where_value)

\* the text C9 prescribes for a single-table intent: the projection, the
\* table and, for a complete filter, the WHERE part
C9_Expected(int) ==
    LET projection ==
            IF Truthy(int.aggregation) /\ int.columns # <<>>
                THEN int.aggregation \o <<"(">> \o int.columns[1] \o <<")">>
            ELSE IF Truthy(int.aggregation)
                THEN int.aggregation \o <<"(", "*", ")">>
            ELSE IF int.columns # <<>>
                THEN join(<<",", " ">>, int.columns)
            ELSE <<"*">>
        select == kwSELECT \o SP \o projection \o SP \o kwFROM \o SP
                    \o referenced_tables(int)[1]
    IN  IF Truthy(int.where_column) /\ Truthy(int.where_operator) /\ Truthy(int.where_value)
        THEN select \o SP \o kwWHERE \o SP \o int.where_column \o SP
                \o int.where_operator \o SP \o int.where_value
        ELSE select

\* 'show STU_FNAME from STUDENT where STU_GPA > 3'
C9_Question ==
    word.show \o SP \o cSTU_FNAME \o SP \o word.from \o SP \o tSTUDENT \o SP
       \o word.where \o SP \o cSTU_GPA \o <<" ", ">", " ", "3">>

\* 'SELECT STU_FNAME FROM STUDENT WHERE STU_GPA > 3'
C9_QuestionSQL ==
    kwSELECT \o SP \o cSTU_FNAME \o SP \o kwFROM \o SP \o tSTUDENT \o SP
       \o kwWHERE \o SP \o cSTU_GPA \o <<" ", ">", " ", "3">>

\* C9 (SpecPipeline), as claimed: for a single-table intent that passes the
\* membership checks generate_sql returns exactly
\* 'SELECT <projection> FROM <table>[ WHERE <column> <op> <value>]', and the
\* question 'show STU_FNAME from STUDENT where STU_GPA > 3' yields
\* 'SELECT STU_FNAME FROM STUDENT WHERE STU_GPA > 3'.
C9_SingleTableText ==
    (/\ plan.kind = "return"
     /\ Len(referenced_tables(intent)) = 1
     /\ C5_Resolved
     /\ Truthy(intent.where_column) =>
            intent.where_column \in Range(SchemaGet(schema, referenced_tables(intent)[1]))) =>
        /\ plan.value = C9_Expected(intent)
        /\ (user_input = C9_Question /\ schema = CatalogA) => plan.value = C9_QuestionSQL

\* C10 (SpecPipeline), as claimed: when the planner returns None for a
\* question with three or more tables, nothing is executed and the response
\* has confidence 0 and the reason "unsupported table count".
C10_Original ==
    (pc = "done" /\ Len(intent.tables) >= 3 /\ plan = Return(None)) =>
        /\ executed = <<>>
        /\ response.confidence = 0
        /\ response.explanation.e.msg = "unsupported table count"

\* C10 (SpecPipeline), amended: when the planner returns None for a question
\* with three or more tables, nothing is executed and the response has
\* sql = None, confidence 0 and the reason "Planner failed to produce valid
\* SQL".
C10_PlannerFailureReported ==
    (pc = "done" /\ Len(intent.tables) >= 3 /\ plan = Return(None)) =>
        /\ executed = <<>>
        /\ response.sql = None
        /\ response.confidence = 0
        /\ response.explanation.e.msg = "Planner failed to produce valid SQL"

\* a question naming three tables has been answered
C10_Witness ==
    /\ pc = "done"
    /\ intent.tables = <<tSTUDENT, tDEPARTMENT, tCOURSE>>
    /\ plan = Return(None)
    /\ response.confidence = 0

\* C11 (SpecPipeline), as claimed: intent extraction followed by synthesis is
\* deterministic.  Every Intent that a run of the parser can return for the
\* request's catalog and question is the Intent this run obtained, with the
\* same order of its tables and columns lists, and synthesis under the same
\* probe gives the same SQL text for it.
C11_Deterministic ==
    (pc # "start" /\ lower(strip(user_input)) # w_show_tables) =>
        \A other \in nlu_parse(variant, user_input, schema) :
            /\ other = intent
            /\ generate_sql(other, schema, relations, planner_conn(variant, conn))
                   = generate_sql(intent, schema, relations, planner_conn(variant, conn))

\* C12 (SpecPipeline), as claimed: a failed execution of the validated
\* candidate is followed by a repair attempt, that is a correct_query call on
\* the orchestrator's reflex agent, which leaves its record in the agent's
\* correction history before the request ends.
C12_ExecutionFailureRepaired ==
    (pc = "done" /\ exec_error # NoExc) => reflex.correction_history # <<>>

\* C13 (SpecPipeline), as claimed: a request whose execution failed and was
\* not repaired is returned with confidence 0 and the last error message,
\* never with confidence 1 or the 'executed successfully' explanation.
C13_FailedExecutionReported ==
    (pc = "done" /\ exec_error # NoExc) =>
        /\ response.confidence = 0
        /\ response.explanation.e = exec_error
        /\ response.explanation.prefix # "Query executed successfully."

\* the order of the strategies of correct_query
strategy_order == <<rx.pattern_based, rx.schema_based, rx.learning_based, rx.fallback>>

\* C14 (SpecReflex), as claimed: within one correct_query call the strategies
\* run in the order pattern-based, schema-based, learning-based, fallback; no
\* strategy runs after one that returned a text different from the input, and
\* after a strategy that returned the text unchanged the next one in the order
\* always runs.
C14_NextStrategyAlwaysTried ==
    call.kind = "correct_query" =>
        /\ Len(call.tried) \in 1..Len(strategy_order)
        /\ \A i \in 1..Len(call.tried) :
              /\ call.tried[i].strategy = strategy_order[i]
              /\ call.tried[i].returned # call.sql => i = Len(call.tried)
              /\ (call.tried[i].returned = call.sql /\ i < Len(strategy_order))
                     => i < Len(call.tried)

\* the strategies an agent uses: learning-based only while learning is enabled
strategies_in_use(learning_enabled) ==
    SelectSeq(strategy_order, LAMBDA s : s # rx.learning_based \/ learning_enabled)

\* C14 (SpecReflex), amended: the strategies that run are pattern-based,
\* schema-based, learning-based if learning is enabled on the agent, and
\* fallback, in this order; no strategy runs after one that returned a text
\* different from the input, and after a strategy that returned the text
\* unchanged the next of them always runs, so that the fallback runs whenever
\* the others yield no change.
C14_StrategyOrder ==
    call.kind = "correct_query" =>
        \A order \in {strategies_in_use(call.learning_enabled)} :
            /\ Len(call.tried) \in 1..Len(order)
            /\ \A i \in 1..Len(call.tried) :
                  /\ call.tried[i].strategy = order[i]
                  /\ call.tried[i].returned # call.sql => i = Len(call.tried)
                  /\ (call.tried[i].returned = call.sql /\ i < Len(order))
                         => i < Len(call.tried)

\* a call on an agent with learning disabled went from the schema-based
\* strategy to the fallback, which changed the text, after a call that the
\* pattern-based strategy ended
C14_Witness ==
    /\ call.kind = "correct_query"
    /\ ~call.learning_enabled
    /\ Len(call.tried) = 3
    /\ call.tried[3].strategy = rx.fallback
    /\ call.tried[3].returned # call.sql
    /\ Len(reflex.correction_history) = 2
    /\ reflex.correction_history[1].strategy = rx.pattern_based

\* C15 (SpecReflex): a correct_query call that returns the input text reports
\* confidence 0; a confidence above 0 is reported only with a changed text.
C15_UnchangedMeansZeroConfidence ==
    call.kind = "correct_query" =>
        /\ call.corrected_sql = call.sql => call.correction_info.confidence = 0
        /\ call.correction_info.confidence > 0 => call.corrected_sql # call.sql

\* a call whose four strategies all returned the input text has ended, after
\* a call that reported a confidence above 0
C15_Witness ==
    /\ call.kind = "correct_query"
    /\ Len(call.tried) = Len(strategy_order)
    /\ call.corrected_sql = call.sql
    /\ call.correction_info.confidence = 0
    /\ Len(reflex.correction_history) = 1
    /\ reflex.correction_history[1].confidence > 0

\* C16 (SpecReflex), as claimed: the confidence of a repair that applied at
\* least one correction is, in hundredths, the base value of the strategy
\* that changed the text (pattern 80, schema 90, learning 70, fallback 60),
\* plus 10 for exactly one correction, minus 20 for more than three, minus 10
\* if the repair took longer than 1 second, clamped to 0..100.
C16_ConfidenceOfRepair ==
    (call.kind = "correct_query" /\ call.correction_info.corrections_applied # <<>>) =>
        LET winner == call.tried[Len(call.tried)].strategy
            base == CASE winner = rx.pattern_based  -> 80
                      [] winner = rx.schema_based   -> 90
                      [] winner = rx.learning_based -> 70
                      [] winner = rx.fallback       -> 60
            n == Len(call.correction_info.corrections_applied)
            claimed == base + (IF n = 1 THEN 10 ELSE 0) - (IF n > 3 THEN 20 ELSE 0)
                            - (IF call.elapsed > 1000 THEN 10 ELSE 0)
        IN  call.correction_info.confidence =
                IF claimed < 0 THEN 0 ELSE IF claimed > 100 THEN 100 ELSE claimed

\* C17 (SpecHistory): the correction history never holds more than
\* HistoryCapacity records, and a correct_query call that logs its repair
\* leaves the records appended last, in the order they were appended: the new
\* record is the last one, before it are the records of the history as it
\* was, without the oldest one if the capacity would be exceeded.
C17_HistoryKeepsMostRecent ==
    [][/\ Len(reflex'.correction_history) <= HistoryCapacity
       /\ (now' # now /\ call'.correction_info.strategy # rx.failed) =>
             \E evicted \in {IF Len(reflex.correction_history) = HistoryCapacity
                             THEN 1 ELSE 0} :
                /\ Len(reflex'.correction_history)
                      = Len(reflex.correction_history) + 1 - evicted
                /\ \A i \in 1..Len(reflex'.correction_history) :
                      IF i = Len(reflex'.correction_history)
                      THEN /\ reflex'.correction_history[i].timestamp = now'
                           /\ reflex'.correction_history[i].original_sql = call'.sql
                           /\ reflex'.correction_history[i].corrected_sql = call'.corrected_sql
                      ELSE reflex'.correction_history[i]
                              = reflex.correction_history[i + evicted]]_vars

\* MaxCalls calls were logged by an agent whose history was at most MaxCalls
\* records below the capacity: the history is full and its records are those
\* of the last HistoryCapacity points in time, so that the oldest were evicted
C17_Witness ==
    /\ now = MaxCalls
    /\ Len(reflex.correction_history) = HistoryCapacity
    /\ \A i \in 1..HistoryCapacity :
          reflex.correction_history[i].timestamp = MaxCalls - HistoryCapacity + i

\* C18 (SpecReflex), as claimed: in a correct_query call of an agent with
\* learning enabled whose pattern-based and schema-based strategies returned
\* the text unchanged, the learning-based strategy returns the corrected SQL
\* of the most recent record of the correction history that changed its text
\* and whose error message has the signature of the current one, and the
\* text unchanged if the history has no such record.
C18_LearningReplaysLastSuccess ==
    [][(/\ now' # now
        /\ call'.learning_enabled
        /\ Len(call'.tried) >= 2
        /\ call'.tried[2].returned = call'.sql) =>
           LET history == reflex.correction_history
               prior == {i \in 1..Len(history) :
                           /\ history[i].corrected_sql # history[i].original_sql
                           /\ extract_error_pattern(history[i].error_message)
                                 = extract_error_pattern(call'.error_message)}
           IN  /\ Len(call'.tried) >= 3
               /\ call'.tried[3].strategy = rx.learning_based
               /\ call'.tried[3].returned =
                     IF prior = {} THEN call'.sql
                     ELSE history[CHOOSE i \in prior : \A j \in prior : j <= i].corrected_sql]_vars

\* C19 (SpecReflex), as claimed: every correct_query call appends exactly one
\* record to the correction history and adds one to exactly one of the two
\* counters, of successes and of failures, of the signature of its error
\* message.
C19_EveryCallRecorded ==
    [][now' # now =>
          LET signature == extract_error_pattern(call'.error_message)
              count(patterns) == IF signature \in DOMAIN patterns THEN patterns[signature]
                                 ELSE 0
          IN  /\ Len(reflex'.correction_history) = Len(reflex.correction_history) + 1
              /\ (count(reflex'.success_patterns) - count(reflex.success_patterns))
                    + (count(reflex'.error_patterns) - count(reflex.error_patterns)) = 1]_vars

\* C20 (SpecReflex), as claimed: for an error message that reports a timeout
\* no strategy of correct_query changes the SQL text, and the call returns
\* the text as it was given.
C20_TimeoutNeverRepaired ==
    (call.kind = "correct_query"
        /\ Contains(lower(call.error_message), Timeout.error_message)) =>
        /\ \A i \in 1..Len(call.tried) : call.tried[i].returned = call.sql
        /\ call.corrected_sql = call.sql
        /\ call.correction_info.corrections_applied = <<>>

\* the sum of the values of a counter dict
Total(patterns) ==
    LET RECURSIVE sum(_)
        sum(keys) == IF keys = {} THEN 0
                     ELSE LET key == CHOOSE key \in keys : TRUE
                          IN  patterns[key] + sum(keys \ {key})
    IN  sum(DOMAIN patterns)

\* C21 (SpecShared), as claimed: concurrent correct_query calls on one agent
\* are serialized.  The record of a call is appended to the history that its
\* learning lookup read, with no record of another call in between, and once
\* every thread has returned the history holds one record for each call that
\* logged its repair and the counters sum to the number of these calls.
C21_CallsSerialized ==
    pc = "shared" =>
        /\ \A w \in Workers :
              (call[w].kind = "correct_query" /\ call[w].position > 0) =>
                  call[w].position = call[w].seen + 1
        /\ (\A w \in Workers : call[w].kind = "correct_query" /\ call[w].at = "returned") =>
              \E logged \in {Cardinality({w \in Workers : call[w].position > 0})} :
                  /\ Len(reflex.correction_history) = logged
                  /\ Total(reflex.success_patterns) + Total(reflex.error_patterns) = logged

\* C22 (SpecReflex), as claimed: the name the pattern-based strategy puts in
\* the place of the column (table) that a 'no such column' ('no such table')
\* error names is a column (table) of the catalog the call was given.
C22_SubstituteFromCatalog ==
    (call.kind = "correct_query" /\ call.correction_info.strategy = rx.pattern_based) =>
        \A i \in 1..Len(call.correction_info.corrections_applied) :
            \E correction \in {call.correction_info.corrections_applied[i]} :
                /\ correction.what = "Column" => correction.to \in all_columns(schema)
                /\ correction.what = "Table" =>
                      correction.to \in {schema[t].name : t \in 1..Len(schema)}

\* the tables of the catalog that the question names: as a whole word, in any
\* letter case, or without the final s of the table's name
NamedTables ==
    {schema[t].name : t \in
        {t \in 1..Len(schema) :
            \E table_l \in {lower(schema[t].name)} :
                \/ WordSearch(lower(user_input), table_l)
                \/ /\ table_l # <<>>
                   /\ table_l[Len(table_l)] = "s"
                   /\ WordSearch(lower(user_input), SubSeq(table_l, 1, Len(table_l) - 1))}}

\* C23 (SpecParse): in the Intent parse returns, table is set if and only if
\* the question names exactly one table of the catalog, and is then this
\* table; column is set if and only if columns holds exactly one column, and
\* is then this column; none of the two lists names a candidate twice.
C23_SingularOnlyIfUnique ==
    pc = "parsed" =>
        /\ Range(intent.tables) = NamedTables
        /\ Len(intent.tables) = Cardinality(NamedTables)
        /\ intent.table = IF Cardinality(NamedTables) = 1 THEN intent.tables[1] ELSE None
        /\ Len(intent.columns) = Cardinality(Range(intent.columns))
        /\ intent.column = IF Len(intent.columns) = 1 THEN intent.columns[1] ELSE None

\* a question that names one table and two of its columns has been parsed:
\* table is set, column is unset
C23_Witness ==
    /\ pc = "parsed"
    /\ intent.tables = <<tSTUDENT>>
    /\ intent.table = tSTUDENT
    /\ Len(intent.columns) = 2
    /\ intent.column = None

\* C24 (SpecParse), as claimed: the where_value of the Intent is either a
\* number, stored bare, or a value that is no number, stored between single
\* quotes in the letter case it has in the question, whether the operator of
\* the filter was written as a symbol or as text.
C24_ValueKeepsItsCase ==
    (pc = "parsed" /\ intent.where_value # None) =>
        \/ IsNumeric(intent.where_value)
        \/ \E value \in {SubSeq(intent.where_value, 2, Len(intent.where_value) - 1)} :
              /\ intent.where_value = qq(value)
              /\ ~IsNumeric(value)
              /\ Contains(user_input, value)

\* C25 (SpecParse), as claimed: the aggregation of the Intent is the first of
\* COUNT, AVG, MAX, MIN, SUM one of whose keywords is a whole word (or phrase)
\* of the question, and none if there is no such keyword; a question with a
\* keyword of SUM and of no other aggregation yields SUM.
C25_FirstAggregationWins ==
    pc = "parsed" =>
        LET matches(keywords) == \E k \in keywords : WordSearch(lower(user_input), k)
        IN  intent.aggregation =
                IF matches({kw.count, kw.how_many}) THEN kwCOUNT
                ELSE IF matches({kw.average, kw.avg, kw_enhanced.mean}) THEN kw.AVG
                ELSE IF matches({kw.maximum, kw.max, kw_enhanced.highest}) THEN kw.MAX
                ELSE IF matches({kw.minimum, kw.min, kw_enhanced.lowest}) THEN kw.MIN
                ELSE IF matches({kw_enhanced.sum, kw_enhanced.total}) THEN kw_enhanced.SUM
                ELSE None

\* C29 (SpecParse), as claimed: where_column, where_operator and where_value
\* of the Intent are all set or all unset.
C29_FilterAllOrNothing ==
    pc = "parsed" =>
        \/ /\ intent.where_column = None
           /\ intent.where_operator = None
           /\ intent.where_value = None
        \/ /\ intent.where_column # None
           /\ intent.where_operator # None
           /\ intent.where_value # None

\* C26 (SpecReflex), as claimed: the schema-based strategy leaves every word
\* of the query that is a table name or a column name of the catalog as it
\* is, and returns a query unchanged whose identifiers (its words other than
\* SELECT, FROM, JOIN, WHERE) are all names of the catalog.
C26_CatalogNamesUntouched ==
    (call.kind = "correct_query" /\ Len(call.tried) >= 2) =>
        LET universe == all_columns(schema) \cup {schema[t].name : t \in 1..Len(schema)}
            returned == call.tried[2].returned
        IN  /\ (words(call.sql) \cap universe) \subseteq words(returned)
            /\ (words(call.sql) \ {kwSELECT, kwFROM, kwJOIN, kwWHERE}) \subseteq universe
                  => returned = call.sql

\* C27 (SpecPipeline), as claimed: a text that generate_sql returned for the
\* parsed intent is accepted by validate_sql against the catalog it was
\* planned over, whatever the letter case of the catalog's names.
C27_PlannedTextAccepted ==
    (verdict # NotCalled /\ plan.kind = "return" /\ sql = plan.value)
        => verdict.kind = "ok"

\* C28 (SpecPipeline), as claimed: every text handed to the execution
\* collaborator for a request is the text validate_sql accepted for it.
C28_ExecutedIsValidated ==
    \A i \in 1..Len(executed) :
        /\ verdict.kind = "ok"
        /\ plan.kind = "return"
        /\ executed[i] = plan.value

\* C30 (SpecSimilarity), as claimed: the ratio _calculate_similarity returns
\* for two strings lies between 0 and 1, and is 1 only when the strings are
\* equal.
C30_SimilarityNormalized ==
    pc = "compared" =>
        LET numerator   == call.similarity[1]
            denominator == call.similarity[2]
        IN  /\ 0 <= numerator
            /\ numerator <= denominator
            /\ numerator = denominator => call.str1 = call.str2

====
